---------------------------- MODULE Spec2Model ----------------------------
(***************************************************************************)
(* Model of the schema-diff script: the JSON-LD pipeline of index.ts       *)
(* (fetch both pages, extract the JSON-LD instances, group them by type,   *)
(* normalize, diff per type, aggregate, display), the command line of      *)
(* main (option parsing, mode selection), and the HTML pipeline (fetch     *)
(* both pages, transformHtml, pretty, diffLines, displayHtmlDiff).         *)
(*                                                                         *)
(* Strings are sequences of UTF-16 code units (natural numbers), so that   *)
(* the two orders the code uses can both be computed: the code-unit order  *)
(* of Array.prototype.sort() without a comparator, and the collation order *)
(* of String.prototype.localeCompare.                                      *)
(*                                                                         *)
(* A JSON value is a record [t, v, keys, items]:                           *)
(*   t = "null" | "bool" | "num" | "str" | "arr" | "obj" | "undefined"    *)
(*   v      the scalar's payload as a sequence of naturals                 *)
(*          (str: its code units, num: <<n>>, bool: <<0>> or <<1>>)        *)
(*   keys   an object's own keys in enumeration order                      *)
(*   items  an array's elements, or an object's values in key order        *)
(***************************************************************************)
EXTENDS Integers, Sequences, FiniteSets

VARIABLES
    pc,           \* position of main()
    fetch1,       \* state of fetchUrl(url1): "pending" | "ok" | "failed"
    fetch2,       \* state of fetchUrl(url2)
    html1,        \* the first page: its JSON-LD script blocks, in document order
    html2,        \* the second page
    schemas1,     \* extractJsonLdSchemas(html1, url1)
    schemas2,     \* extractJsonLdSchemas(html2, url2)
    comparison,   \* compareSchemas(schemas1, schemas2)
    display,      \* the branch displayResults ended in
    warnings,     \* the URLs named by console.warn, in order
    exitCode,     \* process.exit status, 0 while running or on normal end
    fpc,          \* position of the function-level harness
    in1,          \* first input value of the function under test
    in2,          \* second input value
    out1,         \* result of the function for in1
    out2,         \* result of the function for in2
    out3,         \* normalizeSchema(out1), or in1 as getSchemaType left it
    delta,        \* diff(out1, out2)
    argv,         \* process.argv.slice(2): the command line's tokens
    args,         \* minimist(argv): [mode, positional]
    mode,         \* args.mode || "schema"
    dom,          \* the cheerio document of transformHtml after its removals
    clean1,       \* transformHtml(html1): the lines of the simplified first page
    clean2,       \* transformHtml(html2)
    diffs         \* diffLines(pretty(clean1), pretty(clean2), ...)

vars == <<pc, fetch1, fetch2, html1, html2, schemas1, schemas2, comparison,
          display, warnings, exitCode, fpc, in1, in2, out1, out2, out3, delta,
          argv, args, mode, dom, clean1, clean2, diffs>>

pipeVars == <<pc, fetch1, fetch2, html1, html2, schemas1, schemas2, comparison,
              display, warnings, exitCode>>

funVars == <<fpc, in1, in2, out1, out2, out3, delta>>

htmlVars == <<argv, args, mode, dom, clean1, clean2, diffs>>

-----------------------------------------------------------------------------
(* Bounds of the model *)

\* longest array (and longest @type list) among the function-level inputs
MaxLen == 2

\* most instances a fetched page carries
MaxInstances == 2

-----------------------------------------------------------------------------
(* Strings: sequences of UTF-16 code units *)

\* -1, 0, 1: lexicographic comparison of two sequences of naturals; the
\* first position they differ at decides, else the shorter one is lower
LexCmp(s, t) ==
    LET n == IF Len(s) < Len(t) THEN Len(s) ELSE Len(t)
        differ == {i \in 1..n : s[i] # t[i]}
    IN  IF differ = {}
        THEN (IF Len(s) < Len(t) THEN 0 - 1 ELSE IF Len(s) > Len(t) THEN 1 ELSE 0)
        ELSE LET i == CHOOSE i \in differ : \A j \in differ : i <= j
             IN  IF s[i] < t[i] THEN 0 - 1 ELSE 1

\* the order of sort() without a comparator on strings: UTF-16 code units
CodeUnitCmp(s, t) == LexCmp(s, t)

\* the code units the model's strings are written with
CodeUnits ==
    {34, 44, 58, 64, 91, 92, 93, 95, 123, 125, 32, 233, 769}
      \cup (48..57) \cup (65..90) \cup (97..122)

\* Collation (CLDR root order), with U+00E9 taken in its canonical
\* decomposition e + U+0301, as the Unicode collation algorithm does.

\* primary weight of a code unit's first collation element, 0 = ignorable at
\* this level (the combining accent); order: space _ , : " [ ] { } @ \ then
\* digits, then letters
PrimaryWeight ==
    [c \in CodeUnits |->
        IF c = 769 THEN 0
        ELSE IF c = 233 THEN 40 + (101 - 97)
        ELSE IF c = 32 THEN 1
        ELSE IF c = 95 THEN 2
        ELSE IF c = 44 THEN 3
        ELSE IF c = 58 THEN 4
        ELSE IF c = 34 THEN 5
        ELSE IF c = 91 THEN 6
        ELSE IF c = 93 THEN 7
        ELSE IF c = 123 THEN 8
        ELSE IF c = 125 THEN 9
        ELSE IF c = 64 THEN 10
        ELSE IF c = 92 THEN 11
        ELSE IF c \in 48..57 THEN 20 + (c - 48)
        ELSE IF c \in 97..122 THEN 40 + (c - 97)
        ELSE 40 + (c - 65)]

\* the collation elements of a code unit, each with a primary, a secondary
\* (accent) and a tertiary (case) weight: one element for a character, the
\* elements of e and of the acute accent for U+00E9
CollationElements ==
    [c \in CodeUnits |->
        LET accent == [p |-> 0, s |-> 2, t |-> 1]
        IN  IF c = 769 THEN <<accent>>
            ELSE IF c = 233 THEN <<[p |-> PrimaryWeight[c], s |-> 1, t |-> 1], accent>>
            ELSE <<[p |-> PrimaryWeight[c], s |-> 1, t |-> IF c \in 65..90 THEN 2 ELSE 1]>>]

\* a collation element ignorable at every level
Ignorable == [p |-> 0, s |-> 0, t |-> 0]

\* the collation elements of s in order, two places per code unit, the
\* second one ignorable for a code unit with one element
Elements(s) ==
    [k \in 1..(2 * Len(s)) |->
        LET e == CollationElements[s[(k + 1) \div 2]]
        IN  IF k % 2 = 1 THEN e[1] ELSE IF Len(e) = 2 THEN e[2] ELSE Ignorable]

\* the sort keys of s: at each level, the weights that are not ignorable
PrimaryKey(s) ==
    SelectSeq([k \in 1..(2 * Len(s)) |-> Elements(s)[k].p], LAMBDA w : w # 0)

SecondaryKey(s) ==
    SelectSeq([k \in 1..(2 * Len(s)) |-> Elements(s)[k].s], LAMBDA w : w # 0)

TertiaryKey(s) ==
    SelectSeq([k \in 1..(2 * Len(s)) |-> Elements(s)[k].t], LAMBDA w : w # 0)

\* String.prototype.localeCompare: multi-level collation, primary weights
\* first, then accents, then case; canonically equivalent strings compare
\* equal (ECMA-262 requires it)
localeCompare(s, t) ==
    IF s = t THEN 0
    ELSE LET primary == LexCmp(PrimaryKey(s), PrimaryKey(t))
             secondary == LexCmp(SecondaryKey(s), SecondaryKey(t))
         IN  IF primary # 0 THEN primary
             ELSE IF secondary # 0 THEN secondary
             ELSE LexCmp(TertiaryKey(s), TertiaryKey(t))

-----------------------------------------------------------------------------
(* JSON values *)

Undefined == [t |-> "undefined", v |-> <<>>, keys |-> <<>>, items |-> <<>>]

Null == [t |-> "null", v |-> <<>>, keys |-> <<>>, items |-> <<>>]

Num(n) == [t |-> "num", v |-> <<n>>, keys |-> <<>>, items |-> <<>>]

Bool(b) == [t |-> "bool", v |-> <<IF b THEN 1 ELSE 0>>, keys |-> <<>>, items |-> <<>>]

Str(s) == [t |-> "str", v |-> s, keys |-> <<>>, items |-> <<>>]

Arr(xs) == [t |-> "arr", v |-> <<>>, keys |-> <<>>, items |-> xs]

Obj(ks, xs) == [t |-> "obj", v |-> <<>>, keys |-> ks, items |-> xs]

\* Array.isArray(x)
IsArray(x) == x.t = "arr"

\* x && typeof x === "object" for a value that is not an array
IsObject(x) == x.t = "obj"

\* JavaScript truthiness: !x holds of undefined, null, false, 0 and ""
Truthy(x) ==
    CASE x.t \in {"undefined", "null"} -> FALSE
      [] x.t = "bool" -> x.v = <<1>>
      [] x.t = "num" -> x.v # <<0>>
      [] x.t = "str" -> x.v # <<>>
      [] OTHER -> TRUE

Range(s) == {s[i] : i \in 1..Len(s)}

\* schema[key]: the own property, or undefined
GetProp(x, key) ==
    IF x.t = "obj" /\ key \in Range(x.keys)
    THEN x.items[CHOOSE i \in 1..Len(x.keys) : x.keys[i] = key]
    ELSE Undefined

\* the string "__proto__"
ProtoKey == <<95, 95, 112, 114, 111, 116, 111, 95, 95>>

\* normalized[key] = value on a plain object: an ordinary key becomes (or
\* updates) an own property, in insertion order; the key "__proto__" runs the
\* inherited setter, which changes the prototype and adds no own property.
\* (Keys that are canonical array indices, which an engine enumerates first,
\* do not occur among the model's keys.)
SetProp(x, key, value) ==
    IF key = ProtoKey THEN x
    ELSE IF key \in Range(x.keys)
    THEN [x EXCEPT !.items[CHOOSE i \in 1..Len(x.keys) : x.keys[i] = key] = value]
    ELSE [x EXCEPT !.keys = Append(@, key), !.items = Append(@, value)]

RECURSIVE Digits(_)
\* decimal digits of a natural number, as code units
Digits(n) == IF n < 10 THEN <<48 + n>> ELSE Digits(n \div 10) \o <<48 + (n % 10)>>

\* the strings "null", "true", "false"
NullText == <<110, 117, 108, 108>>

TrueText == <<116, 114, 117, 101>>

FalseText == <<102, 97, 108, 115, 101>>

\* a JSON string literal: quotes around the text, with " and \ escaped
Quote(s) ==
    LET escaped == [k \in 1..(2 * Len(s)) |->
                       LET c == s[(k + 1) \div 2]
                       IN  IF k % 2 = 0 THEN c ELSE IF c \in {34, 92} THEN 92 ELSE 0]
    IN  <<34>> \o SelectSeq(escaped, LAMBDA c : c # 0) \o <<34>>

RECURSIVE JSON_stringify(_)
RECURSIVE StringifyItems(_, _)
RECURSIVE StringifyProps(_, _, _)
\* JSON.stringify(x) without indentation
JSON_stringify(x) ==
    CASE x.t = "null" -> NullText
      [] x.t = "bool" -> (IF x.v = <<1>> THEN TrueText ELSE FalseText)
      [] x.t = "num" -> Digits(x.v[1])
      [] x.t = "str" -> Quote(x.v)
      [] x.t = "arr" -> <<91>> \o StringifyItems(x.items, 1) \o <<93>>
      [] x.t = "obj" -> <<123>> \o StringifyProps(x.keys, x.items, 1) \o <<125>>
      [] OTHER -> <<>>

StringifyItems(xs, i) ==
    IF i > Len(xs) THEN <<>>
    ELSE (IF i > 1 THEN <<44>> ELSE <<>>) \o JSON_stringify(xs[i])
             \o StringifyItems(xs, i + 1)

StringifyProps(ks, xs, i) ==
    IF i > Len(ks) THEN <<>>
    ELSE (IF i > 1 THEN <<44>> ELSE <<>>) \o Quote(ks[i]) \o <<58>>
             \o JSON_stringify(xs[i]) \o StringifyProps(ks, xs, i + 1)

\* the sequence f[1], ..., f[n]
Materialize(f, n) == SubSeq(f, 1, n)

\* the order a stable sort puts positions 1..n in, cmp[i][j] being the
\* comparator's result for the elements at i and j: position i goes after
\* every position that compares lower and after the earlier positions it
\* ties with
StableOrder(n, cmp) ==
    LET pos == Materialize(
                   [i \in 1..n |->
                       1 + Cardinality({j \in 1..n : cmp[j][i] < 0})
                         + Cardinality({j \in 1..(i - 1) : cmp[j][i] = 0})], n)
    IN  Materialize([p \in 1..n |-> CHOOSE i \in 1..n : pos[i] = p], n)

\* Array.prototype.sort, which is stable, under the comparison table cmp
StableSort(s, cmp) ==
    LET order == StableOrder(Len(s), cmp)
    IN  Materialize([p \in 1..Len(s) |-> s[order[p]]], Len(s))

\* the table of localeCompare over the strings keys[1], ..., keys[n]
LocaleTable(keys) ==
    [i \in 1..Len(keys) |-> [j \in 1..Len(keys) |-> localeCompare(keys[i], keys[j])]]

\* the table of the code-unit order over the strings keys[1], ..., keys[n]
CodeUnitTable(keys) ==
    [i \in 1..Len(keys) |-> [j \in 1..Len(keys) |-> CodeUnitCmp(keys[i], keys[j])]]

\* (a, b) => JSON.stringify(a).localeCompare(JSON.stringify(b))
CompareSerialized(a, b) == localeCompare(JSON_stringify(a), JSON_stringify(b))

\* xs.sort((a, b) => JSON.stringify(a).localeCompare(JSON.stringify(b))),
\* each element serialized once
SortSerialized(xs) ==
    StableSort(xs, LocaleTable(Materialize([i \in 1..Len(xs) |-> JSON_stringify(xs[i])],
                                           Len(xs))))

\* Object.keys(schema).sort(): code-unit order
SortedKeys(ks) == StableSort(ks, CodeUnitTable(ks))

RECURSIVE normalizeSchema(_)
RECURSIVE NormalizeProps(_, _, _)
RECURSIVE NormalizeItems(_)
\* normalizeSchema with the array sorted before its elements are normalized:
\* schema.sort(...).map(normalizeSchema)
normalizeSchema_SortFirst(schema) ==
    IF IsArray(schema)
    THEN Arr(NormalizeItems(SortSerialized(schema.items)))
    ELSE IF IsObject(schema)
    THEN NormalizeProps(schema, SortedKeys(schema.keys), Obj(<<>>, <<>>))
    ELSE schema

\* schema.map(normalizeSchema)
NormalizeItems(xs) ==
    IF xs = <<>> THEN <<>>
    ELSE <<normalizeSchema(Head(xs))>> \o NormalizeItems(Tail(xs))

\* the for loop of normalizeSchema: normalized[key] = normalizeSchema(schema[key])
NormalizeProps(schema, sortedKeys, normalized) ==
    IF sortedKeys = <<>> THEN normalized
    ELSE NormalizeProps(schema, Tail(sortedKeys),
             SetProp(normalized, Head(sortedKeys),
                     normalizeSchema(GetProp(schema, Head(sortedKeys)))))

normalizeSchema(schema) ==
    IF IsArray(schema)
    THEN Arr(SortSerialized(NormalizeItems(schema.items)))
    ELSE IF IsObject(schema)
    THEN NormalizeProps(schema, SortedKeys(schema.keys), Obj(<<>>, <<>>))
    ELSE schema

-----------------------------------------------------------------------------
(* The structural differ: diff(lhs, rhs) of the deep-diff package *)

PathKey(k) == [k |-> "key", s |-> k, n |-> 0]

\* an array position in a path, zero-based
PathIndex(i) == [k |-> "index", s |-> <<>>, n |-> i]

\* kind "N" (new), "D" (deleted) or "E" (edited) at a path
Change(kind, path, lhs, rhs) ==
    [kind |-> kind, path |-> path, lhs |-> lhs, rhs |-> rhs, index |-> 0, item |-> <<>>]

\* kind "A": a change of the array at path, at a zero-based index
ArrayChange(path, index, item) ==
    [kind |-> "A", path |-> path, lhs |-> Undefined, rhs |-> Undefined,
     index |-> index, item |-> <<item>>]

RECURSIVE DeepDiff(_, _, _)
RECURSIVE DiffTail(_, _, _, _, _)
RECURSIVE DiffCommon(_, _, _, _)
RECURSIVE DiffLeftKeys(_, _, _, _)
RECURSIVE DiffRightKeys(_, _, _, _)
\* the changes from lhs to rhs below currentPath, in the order reported
DeepDiff(lhs, rhs, currentPath) ==
    IF lhs.t = "undefined" /\ rhs.t # "undefined"
    THEN <<Change("N", currentPath, Undefined, rhs)>>
    ELSE IF rhs.t = "undefined" /\ lhs.t # "undefined"
    THEN <<Change("D", currentPath, lhs, Undefined)>>
    ELSE IF lhs.t # rhs.t
    THEN <<Change("E", currentPath, lhs, rhs)>>
    ELSE IF lhs.t = "arr"
    THEN DiffTail(lhs.items, rhs.items, currentPath, Len(lhs.items), Len(rhs.items))
    ELSE IF lhs.t = "obj"
    THEN DiffLeftKeys(lhs, rhs, currentPath, 1) \o DiffRightKeys(lhs, rhs, currentPath, 1)
    ELSE IF lhs # rhs
    THEN <<Change("E", currentPath, lhs, rhs)>>
    ELSE <<>>

\* arrays are compared by position from the end: the longer side's extra
\* elements are array changes at their own (zero-based) index
DiffTail(ls, rs, path, j, i) ==
    IF i > j
    THEN <<ArrayChange(path, i - 1, Change("N", <<>>, Undefined, rs[i]))>>
             \o DiffTail(ls, rs, path, j, i - 1)
    ELSE IF j > i
    THEN <<ArrayChange(path, j - 1, Change("D", <<>>, ls[j], Undefined))>>
             \o DiffTail(ls, rs, path, j - 1, i)
    ELSE DiffCommon(ls, rs, path, i)

DiffCommon(ls, rs, path, i) ==
    IF i = 0 THEN <<>>
    ELSE DeepDiff(ls[i], rs[i], Append(path, PathIndex(i - 1)))
             \o DiffCommon(ls, rs, path, i - 1)

\* the keys of lhs, in order: compared with rhs's value, or deleted
DiffLeftKeys(lhs, rhs, path, i) ==
    IF i > Len(lhs.keys) THEN <<>>
    ELSE DeepDiff(lhs.items[i], GetProp(rhs, lhs.keys[i]), Append(path, PathKey(lhs.keys[i])))
             \o DiffLeftKeys(lhs, rhs, path, i + 1)

\* the keys of rhs that lhs lacks, in order: new
DiffRightKeys(lhs, rhs, path, i) ==
    IF i > Len(rhs.keys) THEN <<>>
    ELSE (IF rhs.keys[i] \in Range(lhs.keys) THEN <<>>
          ELSE DeepDiff(Undefined, rhs.items[i], Append(path, PathKey(rhs.keys[i]))))
             \o DiffRightKeys(lhs, rhs, path, i + 1)

\* diff(lhs, rhs): the list of changes, or undefined when there is none
diff(lhs, rhs) ==
    LET changes == DeepDiff(lhs, rhs, <<>>)
    IN  [defined |-> changes # <<>>, changes |-> changes]

-----------------------------------------------------------------------------
(* Type keys and grouping *)

\* the strings "@type", "unknown", ", ", "," and "[object Object]"
AtType == <<64, 116, 121, 112, 101>>

UnknownText == <<117, 110, 107, 110, 111, 119, 110>>

CommaSpace == <<44, 32>>

Comma == <<44>>

ObjectText == <<91, 111, 98, 106, 101, 99, 116, 32, 79, 98, 106, 101, 99, 116, 93>>

RECURSIVE ToStringJS(_)
RECURSIVE Join(_, _, _)
\* String(x), the conversion sort() and join() apply to an element
ToStringJS(x) ==
    CASE x.t = "str" -> x.v
      [] x.t = "num" -> Digits(x.v[1])
      [] x.t = "bool" -> (IF x.v = <<1>> THEN TrueText ELSE FalseText)
      [] x.t = "null" -> NullText
      [] x.t = "arr" -> Join(x.items, Comma, 1)
      [] x.t = "obj" -> ObjectText
      [] OTHER -> <<>>

\* xs.join(sep) from element i on: null and undefined elements give ""
Join(xs, sep, i) ==
    IF i > Len(xs) THEN <<>>
    ELSE (IF i > 1 THEN sep ELSE <<>>)
             \o (IF xs[i].t \in {"null", "undefined"} THEN <<>> ELSE ToStringJS(xs[i]))
             \o Join(xs, sep, i + 1)

\* xs.sort() without a comparator: String(a) against String(b), by code units
SortDefault(xs) ==
    StableSort(xs, CodeUnitTable(Materialize([i \in 1..Len(xs) |-> ToStringJS(xs[i])],
                                             Len(xs))))

\* getSchemaType with the @type array joined as it stands, without sort()
getSchemaType_NoSort(schema) ==
    IF ~Truthy(schema) THEN UnknownText
    ELSE LET ty == GetProp(schema, AtType)
         IN  IF ty.t = "str" THEN ty.v
             ELSE IF IsArray(ty) THEN Join(ty.items, CommaSpace, 1)
             ELSE IF IsObject(ty) THEN JSON_stringify(ty)
             ELSE UnknownText

\* the type key getSchemaType(schema) returns
getSchemaType(schema) ==
    IF ~Truthy(schema) THEN UnknownText
    ELSE LET ty == GetProp(schema, AtType)
         IN  IF ty.t = "str" THEN ty.v
             ELSE IF IsArray(ty) THEN Join(SortDefault(ty.items), CommaSpace, 1)
             ELSE IF IsObject(ty) THEN JSON_stringify(ty)
             ELSE UnknownText

\* the instance as getSchemaType(schema) leaves it: sort() sorts the @type
\* array of the instance itself, in place
AfterGetSchemaType(schema) ==
    IF Truthy(schema) /\ IsArray(GetProp(schema, AtType))
    THEN [schema EXCEPT
            !.items[CHOOSE i \in 1..Len(schema.keys) : schema.keys[i] = AtType] =
                Arr(SortDefault(GetProp(schema, AtType).items))]
    ELSE schema

\* grouped.get(type), or <<>> for a key the map lacks
MapGet(grouped, type) ==
    IF \E i \in 1..Len(grouped) : grouped[i].type = type
    THEN grouped[CHOOSE i \in 1..Len(grouped) : grouped[i].type = type].schemas
    ELSE <<>>

MapKeys(grouped) == Materialize([i \in 1..Len(grouped) |-> grouped[i].type], Len(grouped))

MapHas(grouped, type) == \E i \in 1..Len(grouped) : grouped[i].type = type

\* MapPush with unshift(schema) in place of push(schema)
MapPush_Unshift(grouped, type, schema) ==
    IF MapHas(grouped, type)
    THEN Materialize([i \in 1..Len(grouped) |->
                         IF grouped[i].type = type
                         THEN [grouped[i] EXCEPT !.schemas = <<schema>> \o @]
                         ELSE grouped[i]],
                     Len(grouped))
    ELSE Append(grouped, [type |-> type, schemas |-> <<schema>>])

\* if (!grouped.has(type)) grouped.set(type, []); grouped.get(type).push(schema)
MapPush(grouped, type, schema) ==
    IF MapHas(grouped, type)
    THEN Materialize([i \in 1..Len(grouped) |->
                         IF grouped[i].type = type
                         THEN [grouped[i] EXCEPT !.schemas = Append(@, schema)]
                         ELSE grouped[i]],
                     Len(grouped))
    ELSE Append(grouped, [type |-> type, schemas |-> <<schema>>])

RECURSIVE GroupFrom(_, _)
\* the forEach of groupSchemasByType over the instances left to visit; the
\* bucket holds the instance itself, as the call of getSchemaType left it
GroupFrom(schemas, grouped) ==
    IF schemas = <<>> THEN grouped
    ELSE GroupFrom(Tail(schemas),
                   MapPush(grouped, getSchemaType(Head(schemas)),
                           AfterGetSchemaType(Head(schemas))))

\* the Map in insertion order: a sequence of [type, schemas]
groupSchemasByType(schemas) == GroupFrom(schemas, <<>>)

\* the instance list after groupSchemasByType has visited it
SchemasAfterGrouping(schemas) ==
    Materialize([i \in 1..Len(schemas) |-> AfterGetSchemaType(schemas[i])], Len(schemas))

-----------------------------------------------------------------------------
(* Extraction: a page is the sequence of its script[type="application/ld+json"]
   elements; a block is what JSON.parse makes of the element's text *)

JsonBlock(x) == [kind |-> "json", parsed |-> x]

\* text that JSON.parse throws on
MalformedBlock == [kind |-> "malformed", parsed |-> Undefined]

\* an element with no text
EmptyBlock == [kind |-> "empty", parsed |-> Undefined]

RECURSIVE FlattenAll(_)
\* the elements of xs with every nested array spread out, at every depth
FlattenAll(xs) ==
    IF xs = <<>> THEN <<>>
    ELSE (IF IsArray(Head(xs)) THEN FlattenAll(Head(xs).items) ELSE <<Head(xs)>>)
             \o FlattenAll(Tail(xs))

RECURSIVE ParsedSchemas_FlattenAll(_)
\* the each() loop with parsed.flat(Infinity) pushed instead of parsed
ParsedSchemas_FlattenAll(html) ==
    IF html = <<>> THEN <<>>
    ELSE (IF Head(html).kind # "json" THEN <<>>
          ELSE IF IsArray(Head(html).parsed) THEN FlattenAll(Head(html).parsed.items)
          ELSE <<Head(html).parsed>>)
             \o ParsedSchemas_FlattenAll(Tail(html))

RECURSIVE ParsedSchemas_StopAtMalformed(_)
\* the each() loop with the try around the whole loop: the first block
\* JSON.parse throws on ends it
ParsedSchemas_StopAtMalformed(html) ==
    IF html = <<>> \/ Head(html).kind = "malformed" THEN <<>>
    ELSE (IF Head(html).kind # "json" THEN <<>>
          ELSE IF IsArray(Head(html).parsed) THEN Head(html).parsed.items
          ELSE <<Head(html).parsed>>)
             \o ParsedSchemas_StopAtMalformed(Tail(html))

RECURSIVE ParsedSchemas(_)
\* the each() loop: schemas.push(...parsed) for an array, schemas.push(parsed)
\* otherwise; an empty block adds nothing, a malformed one is caught
ParsedSchemas(html) ==
    IF html = <<>> THEN <<>>
    ELSE (IF Head(html).kind # "json" THEN <<>>
          ELSE IF IsArray(Head(html).parsed) THEN Head(html).parsed.items
          ELSE <<Head(html).parsed>>)
             \o ParsedSchemas(Tail(html))

RECURSIVE ParseWarnings(_, _)
\* one console.warn naming url for each block JSON.parse throws on
ParseWarnings(html, url) ==
    IF html = <<>> THEN <<>>
    ELSE (IF Head(html).kind = "malformed" THEN <<url>> ELSE <<>>)
             \o ParseWarnings(Tail(html), url)

extractJsonLdSchemas(html, url) ==
    [url |-> url,
     schemas |-> SchemasAfterGrouping(ParsedSchemas(html)),
     schemasByType |-> groupSchemasByType(ParsedSchemas(html))]

-----------------------------------------------------------------------------
(* Comparison *)

\* compareSchemasOfType handing diff the first instance of each side instead
\* of the two sorted instance arrays
compareSchemasOfType_FirstOnly(type, schemas1OfType, schemas2OfType) ==
    LET normalized1 == SortSerialized(NormalizeItems(schemas1OfType))
        normalized2 == SortSerialized(NormalizeItems(schemas2OfType))
        first1 == IF normalized1 = <<>> THEN Undefined ELSE normalized1[1]
        first2 == IF normalized2 = <<>> THEN Undefined ELSE normalized2[1]
        differences == diff(first1, first2)
    IN  [type |-> type,
         count1 |-> Len(schemas1OfType),
         count2 |-> Len(schemas2OfType),
         differences |-> IF differences.defined THEN differences.changes ELSE <<>>,
         identical |-> ~differences.defined \/ Len(differences.changes) = 0]

\* compareSchemasOfType handing diff only as many instances of each side as
\* the shorter side has
compareSchemasOfType_CommonLength(type, schemas1OfType, schemas2OfType) ==
    LET normalized1 == SortSerialized(NormalizeItems(schemas1OfType))
        normalized2 == SortSerialized(NormalizeItems(schemas2OfType))
        common == IF Len(normalized1) < Len(normalized2)
                  THEN Len(normalized1) ELSE Len(normalized2)
        differences == diff(Arr(SubSeq(normalized1, 1, common)),
                            Arr(SubSeq(normalized2, 1, common)))
    IN  [type |-> type,
         count1 |-> Len(schemas1OfType),
         count2 |-> Len(schemas2OfType),
         differences |-> IF differences.defined THEN differences.changes ELSE <<>>,
         identical |-> ~differences.defined \/ Len(differences.changes) = 0]

\* compareSchemasOfType with count2 taken from schemas1OfType
compareSchemasOfType_Count1Twice(type, schemas1OfType, schemas2OfType) ==
    LET normalized1 == SortSerialized(NormalizeItems(schemas1OfType))
        normalized2 == SortSerialized(NormalizeItems(schemas2OfType))
        differences == diff(Arr(normalized1), Arr(normalized2))
    IN  [type |-> type,
         count1 |-> Len(schemas1OfType),
         count2 |-> Len(schemas1OfType),
         differences |-> IF differences.defined THEN differences.changes ELSE <<>>,
         identical |-> ~differences.defined \/ Len(differences.changes) = 0]

compareSchemasOfType(type, schemas1OfType, schemas2OfType) ==
    LET normalized1 == SortSerialized(NormalizeItems(schemas1OfType))
        normalized2 == SortSerialized(NormalizeItems(schemas2OfType))
        differences == diff(Arr(normalized1), Arr(normalized2))
    IN  [type |-> type,
         count1 |-> Len(schemas1OfType),
         count2 |-> Len(schemas2OfType),
         differences |-> IF differences.defined THEN differences.changes ELSE <<>>,
         identical |-> ~differences.defined \/ Len(differences.changes) = 0]

\* [...keys1, ...keys2] without the Set
UnionKeys_Concat(keys1, keys2) == keys1 \o keys2

\* new Set([...keys1, ...keys2]) in insertion order
UnionKeys(keys1, keys2) ==
    keys1 \o SelectSeq(keys2, LAMBDA k : k \notin Range(keys1))

RECURSIVE TypeCounts(_, _)
\* typeCounts[type] = schemas.length for each entry of the map, on a plain object
TypeCounts(grouped, counts) ==
    IF grouped = <<>> THEN counts
    ELSE TypeCounts(Tail(grouped),
                    SetProp(counts, Head(grouped).type, Num(Len(Head(grouped).schemas))))

\* compareSchemas with allTypesIdentical decided by the counts alone
compareSchemas_CountsOnly(s1, s2) ==
    LET allTypes == UnionKeys(MapKeys(s1.schemasByType), MapKeys(s2.schemasByType))
        typeComparisons ==
            Materialize(
                [i \in 1..Len(allTypes) |->
                    compareSchemasOfType(allTypes[i],
                                         MapGet(s1.schemasByType, allTypes[i]),
                                         MapGet(s2.schemasByType, allTypes[i]))],
                Len(allTypes))
    IN  [url1 |-> s1.url,
         url2 |-> s2.url,
         totalSchemas1 |-> Len(s1.schemas),
         totalSchemas2 |-> Len(s2.schemas),
         typeCounts1 |-> TypeCounts(s1.schemasByType, Obj(<<>>, <<>>)),
         typeCounts2 |-> TypeCounts(s2.schemasByType, Obj(<<>>, <<>>)),
         typeComparisons |-> typeComparisons,
         allTypesIdentical |->
             \A i \in 1..Len(typeComparisons) : typeComparisons[i].count1 = typeComparisons[i].count2]

compareSchemas(s1, s2) ==
    LET allTypes == UnionKeys(MapKeys(s1.schemasByType), MapKeys(s2.schemasByType))
        typeComparisons ==
            Materialize(
                [i \in 1..Len(allTypes) |->
                    compareSchemasOfType(allTypes[i],
                                         MapGet(s1.schemasByType, allTypes[i]),
                                         MapGet(s2.schemasByType, allTypes[i]))],
                Len(allTypes))
    IN  [url1 |-> s1.url,
         url2 |-> s2.url,
         totalSchemas1 |-> Len(s1.schemas),
         totalSchemas2 |-> Len(s2.schemas),
         typeCounts1 |-> TypeCounts(s1.schemasByType, Obj(<<>>, <<>>)),
         typeCounts2 |-> TypeCounts(s2.schemasByType, Obj(<<>>, <<>>)),
         typeComparisons |-> typeComparisons,
         allTypesIdentical |->
             \A i \in 1..Len(typeComparisons) : typeComparisons[i].identical]

\* the branch displayResults(comparison) returns from
displayResults(c) ==
    IF UnionKeys(c.typeCounts1.keys, c.typeCounts2.keys) = <<>> THEN "no schemas found"
    ELSE IF c.allTypesIdentical THEN "all identical"
    ELSE IF SelectSeq(c.typeComparisons, LAMBDA tc : ~tc.identical) = <<>>
    THEN "only count changes"
    ELSE "detailed differences"

\* path.join("."), the path formatDifference shows; "root" without a path
RootText == <<114, 111, 111, 116>>

Dot == <<46>>

PathText(difference) ==
    IF difference.path = <<>> THEN RootText
    ELSE Join(Materialize([i \in 1..Len(difference.path) |->
                              IF difference.path[i].k = "key"
                              THEN Str(difference.path[i].s)
                              ELSE Num(difference.path[i].n)],
                          Len(difference.path)),
              Dot, 1)

-----------------------------------------------------------------------------
(* HTML documents and transformHtml.  A document is the sequence of the
   nodes cheerio's load gives for the page's text; a node is a record
   [type, name, attribs, children, data]:
     type      "tag" | "script" | "style" | "text" | "comment"
     name      an element's tag name
     attribs   an element's attributes in order, each [name, value]
     children  an element's child nodes
     data      the text of a text or comment node
   Attribute names, attribute values and text are sequences of code units. *)

\* the text "class"
ClassAttr == <<99, 108, 97, 115, 115>>

\* the text "style"
StyleAttr == <<115, 116, 121, 108, 101>>

\* the text "srcset"
SrcsetAttr == <<115, 114, 99, 115, 101, 116>>

\* the text "imagesrcset"
ImagesrcsetAttr == <<105, 109, 97, 103, 101, 115, 114, 99, 115, 101, 116>>

\* the text "onclick"
OnclickAttr == <<111, 110, 99, 108, 105, 99, 107>>

\* the text "data-"
DataPrefix == <<100, 97, 116, 97, 45>>

\* the text "type"
TypeAttr == <<116, 121, 112, 101>>

\* the text "rel"
RelAttr == <<114, 101, 108>>

\* the text "application/ld+json"
LdJsonType == <<97, 112, 112, 108, 105, 99, 97, 116, 105, 111, 110, 47, 108, 100, 43, 106, 115, 111, 110>>

\* the text "canonical"
CanonicalRel == <<99, 97, 110, 111, 110, 105, 99, 97, 108>>

\* the text "<!--"
CommentOpen == <<60, 33, 45, 45>>

\* the text "-->"
CommentClose == <<45, 45, 62>>

Attr(name, value) == [name |-> name, value |-> value]

\* an element; domhandler gives script and style elements a type of their own
Element(name, attribs, children) ==
    [type |-> IF name \in {"script", "style"} THEN name ELSE "tag",
     name |-> name, attribs |-> attribs, children |-> children, data |-> <<>>]

TextNode(data) ==
    [type |-> "text", name |-> "", attribs |-> <<>>, children |-> <<>>, data |-> data]

CommentNode(data) ==
    [type |-> "comment", name |-> "", attribs |-> <<>>, children |-> <<>>, data |-> data]

IsElement(node) == node.type \in {"tag", "script", "style"}

\* attr.startsWith(prefix)
startsWith(s, prefix) ==
    /\ Len(s) >= Len(prefix)
    /\ SubSeq(s, 1, Len(prefix)) = prefix

\* the characters \s matches among those the model uses
IsWhitespace(c) == c \in {9, 10, 11, 12, 13, 32}

LineFeed == 10

\* the elements of s at the positions of kept, in order
Pick(s, kept) ==
    LET n == Cardinality(kept)
    IN  Materialize([k \in 1..n |->
                        s[CHOOSE i \in kept : Cardinality({j \in kept : j <= i}) = k]],
                    n)

\* s holds t at position i
HoldsAt(s, t, i) ==
    /\ i >= 1
    /\ i + Len(t) - 1 <= Len(s)
    /\ SubSeq(s, i, i + Len(t) - 1) = t

RECURSIVE RemoveComments(_)
\* html.replace(/<!--([\s\S]*?)-->/g, ""): every leftmost "<!--" up to the
\* nearest "-->" after it is taken out
RemoveComments(s) ==
    LET closes(i) == {j \in (i + Len(CommentOpen))..Len(s) : HoldsAt(s, CommentClose, j)}
        opens == {i \in 1..Len(s) : HoldsAt(s, CommentOpen, i) /\ closes(i) # {}}
    IN  IF opens = {} THEN s
        ELSE LET i == CHOOSE x \in opens : \A y \in opens : x <= y
                 j == CHOOSE x \in closes(i) : \A y \in closes(i) : x <= y
             IN  SubSeq(s, 1, i - 1)
                     \o RemoveComments(SubSeq(s, j + Len(CommentClose), Len(s)))

\* html.replace(/\n\n+/gm, "\n"): a run of line feeds becomes one
CollapseNewlines(s) ==
    Pick(s, {i \in 1..Len(s) : ~(s[i] = LineFeed /\ i > 1 /\ s[i - 1] = LineFeed)})

\* html.replace(/^\s*\n/gm, ""): from each line start, the white space up to
\* the last line feed of the run is taken out.  Inside a run of white space
\* that follows other text the first line start is after its first line feed.
RemoveEmptyLines(s) ==
    LET white(a, b) == \A k \in a..b : IsWhitespace(s[k])
        cut(i) == /\ \E p \in 1..(i - 1) : s[p] = LineFeed /\ white(p, i)
                  /\ \E q \in i..Len(s) : s[q] = LineFeed /\ white(i, q)
    IN  Pick(s, {i \in 1..Len(s) : ~cut(i)})

\* the two line replacements, on text that comments have been taken out of
RemoveBlankLines(s) == RemoveEmptyLines(CollapseNewlines(s))

\* the position of the first t in s, 0 when s does not hold t
FirstAt(s, t) ==
    IF \E i \in 1..Len(s) : HoldsAt(s, t, i)
    THEN CHOOSE i \in 1..Len(s) :
             HoldsAt(s, t, i) /\ \A j \in 1..(i - 1) : ~HoldsAt(s, t, j)
    ELSE 0

RECURSIVE UncommentAttribs(_)
\* the attributes of one start tag after line 5.  The expression works on the
\* text of the tag, name="value" after name="value": a comment inside a value
\* is taken out of it, and a "<!--" in a value with no "-->" after it in that
\* value is matched up to the first "-->" in a later value of the tag, which
\* takes out the rest of the value, the attributes in between and the later
\* value up to there.  What is left is the attribute with the start of its
\* value and the end of the later one.
UncommentAttribs(attribs) ==
    IF attribs = <<>> THEN <<>>
    ELSE LET a == Head(attribs)
             value == RemoveComments(a.value)
             open == FirstAt(value, CommentOpen)
             closing == {m \in 2..Len(attribs) :
                            FirstAt(attribs[m].value, CommentClose) > 0}
         IN  IF open = 0 \/ closing = {}
             THEN <<Attr(a.name, value)>> \o UncommentAttribs(Tail(attribs))
             ELSE LET m == CHOOSE x \in closing : \A y \in closing : x <= y
                      j == FirstAt(attribs[m].value, CommentClose)
                      after == SubSeq(attribs[m].value, j + Len(CommentClose),
                                      Len(attribs[m].value))
                      rest == UncommentAttribs(<<Attr(a.name, after)>>
                                                   \o SubSeq(attribs, m + 1, Len(attribs)))
                  IN  <<Attr(a.name, SubSeq(value, 1, open - 1) \o rest[1].value)>>
                          \o Tail(rest)

\* the attributes with the two line replacements applied to their values
UnblankAttribs(attribs) ==
    Materialize([i \in 1..Len(attribs) |->
                    Attr(attribs[i].name, RemoveBlankLines(attribs[i].value))],
                Len(attribs))

RECURSIVE Uncomment(_)
\* the nodes parsed after line 5: no comment node, no comment syntax in text
\* or in attribute values, text on both sides of a comment joined
Uncomment(nodes) ==
    IF nodes = <<>> THEN <<>>
    ELSE LET node == Head(nodes)
             rest == Uncomment(Tail(nodes))
         IN  IF node.type = "comment" THEN rest
             ELSE IF node.type = "text"
             THEN LET data == RemoveComments(node.data)
                  IN  IF rest # <<>> /\ Head(rest).type = "text"
                      THEN <<TextNode(data \o Head(rest).data)>> \o Tail(rest)
                      ELSE IF data = <<>> THEN rest
                      ELSE <<TextNode(data)>> \o rest
             ELSE <<[node EXCEPT !.attribs = UncommentAttribs(@),
                                 !.children = Uncomment(@)]>> \o rest

RECURSIVE Unblank(_)
\* the nodes parsed after lines 8 and 11
Unblank(nodes) ==
    IF nodes = <<>> THEN <<>>
    ELSE LET node == Head(nodes)
         IN  (IF node.type = "text"
              THEN (IF RemoveBlankLines(node.data) = <<>> THEN <<>>
                    ELSE <<TextNode(RemoveBlankLines(node.data))>>)
              ELSE <<[node EXCEPT !.attribs = UnblankAttribs(@),
                                  !.children = Unblank(@)]>>)
                 \o Unblank(Tail(nodes))

\* load(html) of the text the three replacements leave
load(html) == Unblank(Uncomment(html))

HasAttr(node, name) == \E i \in 1..Len(node.attribs) : node.attribs[i].name = name

\* $(el).attr(name): the value, or <<-1>> for undefined
attr(node, name) ==
    IF HasAttr(node, name)
    THEN node.attribs[CHOOSE i \in 1..Len(node.attribs) : node.attribs[i].name = name].value
    ELSE <<-1>>

RECURSIVE removeAttr(_, _)
\* $("[name]").removeAttr(name)
removeAttr(nodes, name) ==
    Materialize([i \in 1..Len(nodes) |->
                    IF IsElement(nodes[i])
                    THEN [nodes[i] EXCEPT
                            !.attribs = SelectSeq(@, LAMBDA a : a.name # name),
                            !.children = removeAttr(@, name)]
                    ELSE nodes[i]],
                Len(nodes))

RECURSIVE RemoveDataAttrs(_)
\* $("*").each: removeAttr of every attribute whose name starts with "data-"
RemoveDataAttrs(nodes) ==
    Materialize([i \in 1..Len(nodes) |->
                    IF IsElement(nodes[i])
                    THEN [nodes[i] EXCEPT
                            !.attribs = SelectSeq(@, LAMBDA a : ~startsWith(a.name, DataPrefix)),
                            !.children = RemoveDataAttrs(@)]
                    ELSE nodes[i]],
                Len(nodes))

RECURSIVE RemoveScripts_AnyType(_)
\* RemoveScripts keeping every script that has a type attribute
RemoveScripts_AnyType(nodes) ==
    LET kept == SelectSeq(nodes, LAMBDA n : ~(IsElement(n) /\ n.name = "script"
                                              /\ ~HasAttr(n, TypeAttr)))
    IN  Materialize([i \in 1..Len(kept) |->
                        [kept[i] EXCEPT !.children = RemoveScripts_AnyType(@)]],
                    Len(kept))

RECURSIVE RemoveScripts(_)
\* $("script").each: remove unless attr("type") === "application/ld+json"
RemoveScripts(nodes) ==
    LET kept == SelectSeq(nodes, LAMBDA n : ~(IsElement(n) /\ n.name = "script"
                                              /\ attr(n, TypeAttr) # LdJsonType))
    IN  Materialize([i \in 1..Len(kept) |->
                        [kept[i] EXCEPT !.children = RemoveScripts(@)]],
                    Len(kept))

RECURSIVE RemoveElements(_, _)
\* $(name).remove()
RemoveElements(nodes, name) ==
    LET kept == SelectSeq(nodes, LAMBDA n : ~(IsElement(n) /\ n.name = name))
    IN  Materialize([i \in 1..Len(kept) |->
                        [kept[i] EXCEPT !.children = RemoveElements(@, name)]],
                    Len(kept))

RECURSIVE RemoveLinks(_)
\* $("link").each: remove unless attr("rel") === "canonical"
RemoveLinks(nodes) ==
    LET kept == SelectSeq(nodes, LAMBDA n : ~(IsElement(n) /\ n.name = "link"
                                              /\ attr(n, RelAttr) # CanonicalRel))
    IN  Materialize([i \in 1..Len(kept) |->
                        [kept[i] EXCEPT !.children = RemoveLinks(@)]],
                    Len(kept))

RECURSIVE EmptySvgs(_)
\* $("svg").each: $(el).children().remove() takes out the element children,
\* then every attribute is removed
EmptySvgs(nodes) ==
    Materialize([i \in 1..Len(nodes) |->
                    IF IsElement(nodes[i]) /\ nodes[i].name = "svg"
                    THEN [nodes[i] EXCEPT
                            !.attribs = <<>>,
                            !.children = SelectSeq(@, LAMBDA n : ~IsElement(n))]
                    ELSE [nodes[i] EXCEPT !.children = EmptySvgs(@)]],
                Len(nodes))

\* the document of transformHtml when prettier.format is called
SimplifiedDom(html) ==
    LET noClass == removeAttr(load(html), ClassAttr)
        noSrcset == removeAttr(noClass, SrcsetAttr)
        noImagesrcset == removeAttr(noSrcset, ImagesrcsetAttr)
        noStyle == removeAttr(noImagesrcset, StyleAttr)
        noOnclick == removeAttr(noStyle, OnclickAttr)
        noData == RemoveDataAttrs(noOnclick)
        noScript == RemoveScripts(noData)
        noStyleTag == RemoveElements(noScript, "style")
        noLink == RemoveLinks(noStyleTag)
        noTemplate == RemoveElements(noLink, "template")
    IN  EmptySvgs(noTemplate)

\* a line of formatted HTML: an opening tag with its attributes, a closing
\* tag, or text, after indent spaces
Line(indent, kind, name, attribs, data) ==
    [indent |-> indent, kind |-> kind, name |-> name, attribs |-> attribs, data |-> data]

\* spaces per level of nesting in prettier's and in pretty's output
IndentSize == 2

RECURSIVE FormatNodes(_, _)
\* prettier.format($.html(), { parser: "html" }): one line per opening tag,
\* per text and per closing tag, indented by nesting depth
FormatNodes(nodes, depth) ==
    IF nodes = <<>> THEN <<>>
    ELSE LET node == Head(nodes)
         IN  (IF IsElement(node)
              THEN <<Line(IndentSize * depth, "open", node.name, node.attribs, <<>>)>>
                       \o FormatNodes(node.children, depth + 1)
                       \o <<Line(IndentSize * depth, "close", node.name, <<>>, <<>>)>>
              ELSE <<Line(IndentSize * depth, "text", "", <<>>, node.data)>>)
                 \o FormatNodes(Tail(nodes), depth)

transformHtml(html) == FormatNodes(SimplifiedDom(html), 0)

\* the nesting depth of line i: opening tags before it not yet closed
LineDepth(lines, i) ==
    Cardinality({k \in 1..(i - 1) : lines[k].kind = "open"})
      - Cardinality({k \in 1..i : lines[k].kind = "close"})

\* pretty(html): the lines indented again from their nesting
pretty(lines) ==
    Materialize([i \in 1..Len(lines) |->
                    [lines[i] EXCEPT !.indent = IndentSize * LineDepth(lines, i)]],
                Len(lines))

\* a line as diffLines compares it under ignoreWhitespace: without indent
Trimmed(line) == [line EXCEPT !.indent = 0]

TrimmedLines(lines) ==
    Materialize([i \in 1..Len(lines) |-> Trimmed(lines[i])], Len(lines))

\* a part of the result of diffLines
Part(value, added, removed) == [value |-> value, added |-> added, removed |-> removed]

\* diffLines(oldStr, newStr, { ignoreWhitespace: true }): one unchanged part
\* for equal texts; otherwise the common lines at the start, the lines
\* removed, the lines added and the common lines at the end
diffLines(oldLines, newLines) ==
    LET old == TrimmedLines(oldLines)
        new == TrimmedLines(newLines)
        shorter == IF Len(old) < Len(new) THEN Len(old) ELSE Len(new)
        prefix == CHOOSE n \in 0..shorter :
                      /\ \A k \in 1..n : old[k] = new[k]
                      /\ n = shorter \/ old[n + 1] # new[n + 1]
        room == shorter - prefix
        suffix == CHOOSE n \in 0..room :
                      /\ \A k \in 0..(n - 1) : old[Len(old) - k] = new[Len(new) - k]
                      /\ n = room \/ old[Len(old) - n] # new[Len(new) - n]
        start == SubSeq(newLines, 1, prefix)
        removed == SubSeq(oldLines, prefix + 1, Len(old) - suffix)
        added == SubSeq(newLines, prefix + 1, Len(new) - suffix)
        end == SubSeq(newLines, Len(new) - suffix + 1, Len(new))
    IN  (IF start = <<>> THEN <<>> ELSE <<Part(start, FALSE, FALSE)>>)
            \o (IF removed = <<>> THEN <<>> ELSE <<Part(removed, FALSE, TRUE)>>)
            \o (IF added = <<>> THEN <<>> ELSE <<Part(added, TRUE, FALSE)>>)
            \o (IF end = <<>> THEN <<>> ELSE <<Part(end, FALSE, FALSE)>>)

\* displayHtmlDiff: the branch taken
displayHtmlDiff(differences) ==
    IF Len(differences) = 1 /\ ~differences[1].added /\ ~differences[1].removed
    THEN "identical"
    ELSE "differences"

-----------------------------------------------------------------------------
(* Inputs of the model *)

\* sequences over S of length at most n
RECURSIVE SeqsUpTo(_, _)
SeqsUpTo(S, n) ==
    IF n = 0 THEN {<<>>}
    ELSE LET shorter == SeqsUpTo(S, n - 1)
         IN  shorter \cup {Append(s, x) : s \in shorter, x \in S}

\* the strings "Product", "Book", "name", "Old", "New", "a", "b", "B"
ProductText == <<80, 114, 111, 100, 117, 99, 116>>

BookText == <<66, 111, 111, 107>>

NameText == <<110, 97, 109, 101>>

OldText == <<79, 108, 100>>

NewText == <<78, 101, 119>>

KeyA == <<97>>

KeyB == <<98>>

UpperB == <<66>>

\* e with acute accent, precomposed (U+00E9) and decomposed (e, U+0301):
\* two different strings that are canonically equivalent
EAcuteNFC == <<233>>

EAcuteNFD == <<101, 769>>

\* {"@type": "Product", "name": "Old"} and {"@type": "Product", "name": "New"}
ProductOld == Obj(<<AtType, NameText>>, <<Str(ProductText), Str(OldText)>>)

ProductNew == Obj(<<AtType, NameText>>, <<Str(ProductText), Str(NewText)>>)

\* {"@type": ["Product", "Book"], "name": e-acute}, in either form of the name
MultiNFC ==
    Obj(<<AtType, NameText>>, <<Arr(<<Str(ProductText), Str(BookText)>>), Str(EAcuteNFC)>>)

MultiNFD ==
    Obj(<<AtType, NameText>>, <<Arr(<<Str(ProductText), Str(BookText)>>), Str(EAcuteNFD)>>)

Instances == {ProductOld, ProductNew, MultiNFC, MultiNFD}

\* {"@type": "__proto__", "name": "old"}
ProtoTyped == Obj(<<AtType, NameText>>, <<Str(ProtoKey), Str(OldText)>>)

InstanceLists == SeqsUpTo(Instances, MaxInstances)

\* a page with one block per instance
BlockPerInstance(xs) == Materialize([i \in 1..Len(xs) |-> JsonBlock(xs[i])], Len(xs))

\* the pages a fetch can return: the instances one per block, or all in one
\* array block, or a block of malformed JSON alone or before a valid block,
\* or an instance of type __proto__ alone or after another instance
Pages ==
    {BlockPerInstance(xs) : xs \in InstanceLists}
      \cup {<<JsonBlock(Arr(xs))>> : xs \in InstanceLists}
      \cup {<<MalformedBlock, JsonBlock(x)>> : x \in Instances}
      \cup {<<MalformedBlock>>}
      \cup {<<JsonBlock(ProtoTyped)>>, <<JsonBlock(ProductOld), JsonBlock(ProtoTyped)>>}

\* the two URLs, as opaque names
Url1 == "url1"

Url2 == "url2"

NoSchemas == [url |-> "", schemas |-> <<>>, schemasByType |-> <<>>]

NoComparison ==
    [url1 |-> "", url2 |-> "", totalSchemas1 |-> 0, totalSchemas2 |-> 0,
     typeCounts1 |-> Obj(<<>>, <<>>), typeCounts2 |-> Obj(<<>>, <<>>),
     typeComparisons |-> <<>>, allTypesIdentical |-> TRUE]

NoDelta == [defined |-> FALSE, changes |-> <<>>]

-----------------------------------------------------------------------------
(* main(): schema mode *)

\* no command line parsed, no HTML simplified
NoArgs == [mode |-> Undefined, positional |-> <<>>]

HtmlIdle ==
    /\ argv = <<>>
    /\ args = NoArgs
    /\ mode = Undefined
    /\ dom = <<>>
    /\ clean1 = <<>>
    /\ clean2 = <<>>
    /\ diffs = <<>>

PipeInit ==
    /\ HtmlIdle
    /\ pc = "start"
    /\ fetch1 = "idle"
    /\ fetch2 = "idle"
    /\ html1 = <<>>
    /\ html2 = <<>>
    /\ schemas1 = NoSchemas
    /\ schemas2 = NoSchemas
    /\ comparison = NoComparison
    /\ display = "none"
    /\ warnings = <<>>
    /\ exitCode = 0

FunIdle ==
    /\ fpc = "idle"
    /\ in1 = Undefined
    /\ in2 = Undefined
    /\ out1 = Undefined
    /\ out2 = Undefined
    /\ out3 = Undefined
    /\ delta = NoDelta

Init == PipeInit /\ FunIdle

\* Promise.all([fetchUrl(url1), fetchUrl(url2)]): both fetches are started
StartFetches ==
    /\ pc = "start"
    /\ pc' = "fetching"
    /\ fetch1' = "pending"
    /\ fetch2' = "pending"
    /\ UNCHANGED <<html1, html2, schemas1, schemas2, comparison, display,
                   warnings, exitCode, funVars, htmlVars>>

\* fetchUrl(url1) resolves with the page's text
FetchOk1 ==
    /\ pc = "fetching"
    /\ fetch1 = "pending"
    /\ \E page \in Pages : html1' = page
    /\ fetch1' = "ok"
    /\ UNCHANGED <<pc, fetch2, html2, schemas1, schemas2, comparison, display,
                   warnings, exitCode, funVars, htmlVars>>

FetchOk2 ==
    /\ pc = "fetching"
    /\ fetch2 = "pending"
    /\ \E page \in Pages : html2' = page
    /\ fetch2' = "ok"
    /\ UNCHANGED <<pc, fetch1, html1, schemas1, schemas2, comparison, display,
                   warnings, exitCode, funVars, htmlVars>>

\* fetchUrl(url1) throws: a network error or a response that is not ok
FetchFail1 ==
    /\ pc = "fetching"
    /\ fetch1 = "pending"
    /\ fetch1' = "failed"
    /\ UNCHANGED <<pc, fetch2, html1, html2, schemas1, schemas2, comparison,
                   display, warnings, exitCode, funVars, htmlVars>>

FetchFail2 ==
    /\ pc = "fetching"
    /\ fetch2 = "pending"
    /\ fetch2' = "failed"
    /\ UNCHANGED <<pc, fetch1, html1, html2, schemas1, schemas2, comparison,
                   display, warnings, exitCode, funVars, htmlVars>>

\* Abort with the schemas of the first page extracted before the exit
Abort_PartialReport ==
    /\ pc = "fetching"
    /\ fetch1 = "failed" \/ fetch2 = "failed"
    /\ schemas1' = extractJsonLdSchemas(html1, Url1)
    /\ pc' = "exited"
    /\ exitCode' = 1
    /\ UNCHANGED <<fetch1, fetch2, html1, html2, schemas2, comparison,
                   display, warnings, funVars, htmlVars>>

\* Promise.all rejects as soon as one fetch has failed: catch, process.exit(1)
Abort ==
    /\ pc = "fetching"
    /\ fetch1 = "failed" \/ fetch2 = "failed"
    /\ pc' = "exited"
    /\ exitCode' = 1
    /\ UNCHANGED <<fetch1, fetch2, html1, html2, schemas1, schemas2, comparison,
                   display, warnings, funVars, htmlVars>>

\* Extract as soon as the first fetch has resolved
Extract_NoBarrier ==
    /\ pc = "fetching"
    /\ fetch1 = "ok"
    /\ schemas1' = extractJsonLdSchemas(html1, Url1)
    /\ schemas2' = extractJsonLdSchemas(html2, Url2)
    /\ warnings' = ParseWarnings(html1, Url1) \o ParseWarnings(html2, Url2)
    /\ pc' = "extracted"
    /\ UNCHANGED <<fetch1, fetch2, html1, html2, comparison, display, exitCode,
                   funVars, htmlVars>>

\* Promise.all resolves; extractJsonLdSchemas for both pages
Extract ==
    /\ pc = "fetching"
    /\ fetch1 = "ok"
    /\ fetch2 = "ok"
    /\ schemas1' = extractJsonLdSchemas(html1, Url1)
    /\ schemas2' = extractJsonLdSchemas(html2, Url2)
    /\ warnings' = ParseWarnings(html1, Url1) \o ParseWarnings(html2, Url2)
    /\ pc' = "extracted"
    /\ UNCHANGED <<fetch1, fetch2, html1, html2, comparison, display, exitCode,
                   funVars, htmlVars>>

Compare ==
    /\ pc = "extracted"
    /\ comparison' = compareSchemas(schemas1, schemas2)
    /\ pc' = "compared"
    /\ UNCHANGED <<fetch1, fetch2, html1, html2, schemas1, schemas2, display,
                   warnings, exitCode, funVars, htmlVars>>

Display ==
    /\ pc = "compared"
    /\ display' = displayResults(comparison)
    /\ pc' = "done"
    /\ UNCHANGED <<fetch1, fetch2, html1, html2, schemas1, schemas2, comparison,
                   warnings, exitCode, funVars, htmlVars>>

Next ==
    \/ StartFetches
    \/ FetchOk1
    \/ FetchOk2
    \/ FetchFail1
    \/ FetchFail2
    \/ Abort
    \/ Extract
    \/ Compare
    \/ Display

Spec == Init /\ [][Next]_vars

-----------------------------------------------------------------------------
(* Function-level specifications: normalizeSchema and diff on JSON values
   (SpecNorm), getSchemaType on instances (SpecType) *)

OneAndTwo == {Num(1), Num(2)}

Strings == {Str(EAcuteNFC), Str(EAcuteNFD), Str(KeyA), Str(UpperB)}

\* objects with the keys a, b in either order and the values 1, 2
FlatObjects ==
    {Obj(<<>>, <<>>)}
      \cup {Obj(<<k>>, <<x>>) : k \in {KeyA, KeyB}, x \in OneAndTwo}
      \cup {Obj(ks, <<x, y>>) : ks \in {<<KeyA, KeyB>>, <<KeyB, KeyA>>},
                                x \in OneAndTwo, y \in OneAndTwo}

\* objects that JSON.parse gives an own property named __proto__
ProtoObjects ==
    {Obj(<<ProtoKey>>, <<Num(1)>>), Obj(<<ProtoKey>>, <<Num(2)>>),
     Obj(<<KeyA, ProtoKey>>, <<Num(1), Num(1)>>)}

ArrayElements ==
    {Obj(<<KeyB, KeyA>>, <<Num(1), Num(1)>>), Obj(<<KeyA, KeyB>>, <<Num(1), Num(1)>>),
     Obj(<<KeyA>>, <<Num(2)>>)}

InnerArrays == {Arr(<<Num(1), Num(2)>>), Arr(<<Num(2), Num(1)>>)}

\* the JSON values normalizeSchema and diff are applied to
JsonVals ==
    {Null, Num(1)} \cup Strings \cup FlatObjects \cup ProtoObjects
      \cup {Arr(xs) : xs \in SeqsUpTo(Strings, MaxLen)}
      \cup {Arr(xs) : xs \in SeqsUpTo(ArrayElements, MaxLen)}
      \cup {Arr(xs) : xs \in SeqsUpTo(InnerArrays, MaxLen)}
      \cup {Obj(<<KeyA>>, <<x>>) : x \in InnerArrays \cup {Obj(<<KeyB, KeyA>>, <<Num(1), Num(1)>>)}}

InitNorm ==
    /\ PipeInit
    /\ fpc = "input"
    /\ in1 \in JsonVals
    /\ in2 \in JsonVals
    /\ out1 = Undefined
    /\ out2 = Undefined
    /\ out3 = Undefined
    /\ delta = NoDelta

\* normalizeSchema applied to both inputs
Normalize ==
    /\ fpc = "input"
    /\ out1' = normalizeSchema(in1)
    /\ out2' = normalizeSchema(in2)
    /\ fpc' = "normalized"
    /\ UNCHANGED <<pipeVars, htmlVars, in1, in2, out3, delta>>

\* normalizeSchema applied to its own result
Renormalize ==
    /\ fpc = "normalized"
    /\ out3' = normalizeSchema(out1)
    /\ fpc' = "renormalized"
    /\ UNCHANGED <<pipeVars, htmlVars, in1, in2, out1, out2, delta>>

\* diff applied to the two normalized values
Diff ==
    /\ fpc = "normalized"
    /\ delta' = diff(out1, out2)
    /\ fpc' = "diffed"
    /\ UNCHANGED <<pipeVars, htmlVars, in1, in2, out1, out2, out3>>

NextNorm ==
    \/ Normalize
    \/ Renormalize
    \/ Diff

SpecNorm == InitNorm /\ [][NextNorm]_vars

TypeStrings == {Str(ProductText), Str(BookText), Str(KeyA), Str(UpperB)}

\* the instances getSchemaType is applied to: null, 0, a string, objects
\* without @type, and objects whose @type is null, a number, a string, an
\* object or an array of strings
TypeInstances ==
    {Null, Num(0), Str(KeyA), Obj(<<NameText>>, <<Str(OldText)>>)}
      \cup {Obj(<<AtType, NameText>>, <<ty, Str(OldText)>>) :
                ty \in {Null, Num(1), Obj(<<KeyA>>, <<Num(1)>>)} \cup TypeStrings}
      \cup {Obj(<<AtType>>, <<Arr(xs)>>) : xs \in SeqsUpTo(TypeStrings, MaxLen)}

InitType ==
    /\ PipeInit
    /\ fpc = "input"
    /\ in1 \in TypeInstances
    /\ in2 \in TypeInstances
    /\ out1 = Undefined
    /\ out2 = Undefined
    /\ out3 = Undefined
    /\ delta = NoDelta

\* getSchemaType applied to both instances; out3 is in1 after the call
GetType ==
    /\ fpc = "input"
    /\ out1' = Str(getSchemaType(in1))
    /\ out2' = Str(getSchemaType(in2))
    /\ out3' = AfterGetSchemaType(in1)
    /\ fpc' = "typed"
    /\ UNCHANGED <<pipeVars, htmlVars, in1, in2, delta>>

NextType == GetType

SpecType == InitType /\ [][NextType]_vars

-----------------------------------------------------------------------------
(* Function-level specification: extractJsonLdSchemas on pages made of up
   to MaxBlocks script blocks (SpecExtract) *)

\* most script blocks of a page given to extractJsonLdSchemas
MaxBlocks == 3

\* the script blocks: an object, arrays of objects (empty, of one type, of
\* interleaved types), an array holding an array, null, an element without
\* text, text that is not JSON
Blocks ==
    {JsonBlock(ProductOld), JsonBlock(MultiNFC), JsonBlock(Null),
     JsonBlock(Arr(<<>>)),
     JsonBlock(Arr(<<ProductNew, ProductOld>>)),
     JsonBlock(Arr(<<ProductNew, MultiNFC, ProductOld>>)),
     JsonBlock(Arr(<<Arr(<<ProductOld, ProductNew>>), ProductNew>>)),
     EmptyBlock, MalformedBlock}

InitExtract ==
    /\ pc = "start"
    /\ fetch1 = "ok"
    /\ fetch2 = "idle"
    /\ html1 \in SeqsUpTo(Blocks, MaxBlocks)
    /\ html2 = <<>>
    /\ schemas1 = NoSchemas
    /\ schemas2 = NoSchemas
    /\ comparison = NoComparison
    /\ display = "none"
    /\ warnings = <<>>
    /\ exitCode = 0
    /\ fpc = "input"
    /\ in1 = Undefined
    /\ in2 = Undefined
    /\ out1 = Undefined
    /\ out2 = Undefined
    /\ out3 = Undefined
    /\ delta = NoDelta
    /\ HtmlIdle

\* extractJsonLdSchemas(html1, url1)
ExtractOne ==
    /\ fpc = "input"
    /\ schemas1' = extractJsonLdSchemas(html1, Url1)
    /\ warnings' = ParseWarnings(html1, Url1)
    /\ fpc' = "extracted"
    /\ UNCHANGED <<pc, fetch1, fetch2, html1, html2, schemas2, comparison, display,
                   exitCode, in1, in2, out1, out2, out3, delta, htmlVars>>

NextExtract == ExtractOne

SpecExtract == InitExtract /\ [][NextExtract]_vars

-----------------------------------------------------------------------------
(* Function-level specification: transformHtml on documents whose body has
   up to MaxNodes of the sample nodes (SpecHtml) *)

\* most child nodes of body in a document given to transformHtml
MaxNodes == 2

\* the text "title"
TitleAttr == <<116, 105, 116, 108, 101>>

\* the text "href"
HrefAttr == <<104, 114, 101, 102>>

\* the text "alt"
AltAttr == <<97, 108, 116>>

\* the text "content"
ContentAttr == <<99, 111, 110, 116, 101, 110, 116>>

\* the text "viewBox"
ViewBoxAttr == <<118, 105, 101, 119, 66, 111, 120>>

\* the text "data-id"
DataIdAttr == <<100, 97, 116, 97, 45, 105, 100>>

\* the text "data"
DataAttr == <<100, 97, 116, 97>>

\* the text "text/javascript"
JavaScriptType == <<116, 101, 120, 116, 47, 106, 97, 118, 97, 115, 99, 114, 105, 112, 116>>

\* the text "stylesheet"
StylesheetRel == <<115, 116, 121, 108, 101, 115, 104, 101, 101, 116>>

\* the text "x"
XText == <<120>>

\* the text "y"
YText == <<121>>

\* the text "a<!--b-->c"
CommentedText == <<97, 60, 33, 45, 45, 98, 45, 45, 62, 99>>

\* the text "a", two line feeds, "b"
BlankLineText == <<97, 10, 10, 98>>

\* the text "a", a line feed, a space, a line feed, "b"
SpaceLineText == <<97, 10, 32, 10, 98>>

\* the nodes a body is made of: every attribute and element transformHtml
\* removes, their near misses (an attribute named data, a script of another
\* type, a link of another rel), nesting, and attribute values and text
\* that hold comment syntax or blank lines
SampleNodes ==
    {Element("div", <<Attr(ClassAttr, XText), Attr(TitleAttr, YText)>>, <<TextNode(XText)>>),
     Element("img", <<Attr(SrcsetAttr, XText), Attr(ImagesrcsetAttr, XText),
                      Attr(StyleAttr, XText), Attr(AltAttr, YText),
                      Attr(OnclickAttr, XText), Attr(DataIdAttr, XText)>>, <<>>),
     Element("a", <<Attr(DataAttr, XText), Attr(HrefAttr, YText)>>, <<>>),
     Element("div", <<Attr(DataPrefix, XText)>>, <<>>),
     Element("script", <<Attr(TypeAttr, LdJsonType)>>, <<TextNode(XText)>>),
     Element("script", <<Attr(TypeAttr, JavaScriptType)>>, <<TextNode(XText)>>),
     Element("script", <<>>, <<TextNode(YText)>>),
     Element("style", <<>>, <<TextNode(XText)>>),
     Element("link", <<Attr(RelAttr, CanonicalRel), Attr(HrefAttr, YText)>>, <<>>),
     Element("link", <<Attr(RelAttr, StylesheetRel), Attr(HrefAttr, YText)>>, <<>>),
     Element("link", <<Attr(HrefAttr, XText)>>, <<>>),
     Element("template", <<>>, <<Element("div", <<Attr(TitleAttr, YText)>>, <<>>)>>),
     Element("svg", <<Attr(ClassAttr, XText), Attr(ViewBoxAttr, YText)>>,
             <<Element("path", <<Attr(StyleAttr, XText)>>, <<>>), TextNode(YText)>>),
     Element("div", <<>>,
             <<Element("script", <<Attr(TypeAttr, JavaScriptType)>>, <<>>),
               Element("link", <<Attr(RelAttr, CanonicalRel)>>, <<>>),
               Element("span", <<Attr(ClassAttr, YText), Attr(TitleAttr, XText)>>, <<>>),
               Element("svg", <<>>,
                       <<Element("script", <<Attr(TypeAttr, LdJsonType)>>, <<>>)>>)>>),
     Element("meta", <<Attr(ContentAttr, BlankLineText)>>, <<>>),
     Element("meta", <<Attr(ContentAttr, SpaceLineText)>>, <<>>),
     Element("a", <<Attr(TitleAttr, CommentedText)>>, <<>>),
     CommentNode(XText),
     TextNode(YText)}

\* the tree load gives a page: html, an empty head, and body
Document(nodes) ==
    <<Element("html", <<>>,
              <<Element("head", <<>>, <<>>), Element("body", <<>>, nodes)>>)>>

HtmlDocs == {Document(nodes) : nodes \in SeqsUpTo(SampleNodes, MaxNodes)}

InitHtml ==
    /\ pc = "start"
    /\ fetch1 = "ok"
    /\ fetch2 = "idle"
    /\ html1 \in HtmlDocs
    /\ html2 = <<>>
    /\ schemas1 = NoSchemas
    /\ schemas2 = NoSchemas
    /\ comparison = NoComparison
    /\ display = "none"
    /\ warnings = <<>>
    /\ exitCode = 0
    /\ fpc = "input"
    /\ in1 = Undefined
    /\ in2 = Undefined
    /\ out1 = Undefined
    /\ out2 = Undefined
    /\ out3 = Undefined
    /\ delta = NoDelta
    /\ HtmlIdle

\* transformHtml up to the call of prettier.format
Simplify ==
    /\ fpc = "input"
    /\ dom' = SimplifiedDom(html1)
    /\ fpc' = "simplified"
    /\ UNCHANGED <<pipeVars, in1, in2, out1, out2, out3, delta, argv, args, mode,
                   clean1, clean2, diffs>>

\* await prettier.format($.html(), { parser: "html" }); return
Format ==
    /\ fpc = "simplified"
    /\ clean1' = FormatNodes(dom, 0)
    /\ fpc' = "formatted"
    /\ UNCHANGED <<pipeVars, in1, in2, out1, out2, out3, delta, argv, args, mode,
                   dom, clean2, diffs>>

NextHtml ==
    \/ Simplify
    \/ Format

SpecHtml == InitHtml /\ [][NextHtml]_vars

-----------------------------------------------------------------------------
(* main() of the command line: option parsing, argument checks, mode
   selection, and the pipeline of the selected mode (SpecMain).  The two
   URLs built from the positional arguments are the opaque Url1 and Url2. *)

\* the text "schema"
SchemaText == <<115, 99, 104, 101, 109, 97>>

\* the text "html"
HtmlText == <<104, 116, 109, 108>>

\* the text "xml"
XmlText == <<120, 109, 108>>

\* the text "0"
ZeroText == <<48>>

\* the text "1"
OneText == <<49>>

\* a command-line token: --key, --key=text, or a word that is not an option
Flag(key) == [kind |-> "flag", key |-> key, text |-> <<>>]

FlagEq(key, text) == [kind |-> "flagEq", key |-> key, text |-> text]

Word(text) == [kind |-> "word", key |-> "", text |-> text]

\* minimist's isNumber for the texts of the model: a run of decimal digits
IsNumberText(s) == s # <<>> /\ \A i \in 1..Len(s) : s[i] \in 48..57

RECURSIVE NumberOf(_)
\* Number(s) for a run of decimal digits
NumberOf(s) ==
    IF s = <<>> THEN 0
    ELSE 10 * NumberOf(SubSeq(s, 1, Len(s) - 1)) + (s[Len(s)] - 48)

\* minimist: a value that looks like a number is stored as a number
ArgValue(text) == IF IsNumberText(text) THEN Num(NumberOf(text)) ELSE Str(text)

\* minimist's setKey: the first value is stored, a boolean is overwritten,
\* a repeated option collects its values in an array
setKey(old, value) ==
    IF old = Undefined \/ old.t = "bool" THEN value
    ELSE IF IsArray(old) THEN Arr(Append(old.items, value))
    ELSE Arr(<<old, value>>)

RECURSIVE ParseArgv(_, _)
\* minimist's loop over the tokens left, with the result so far: --key=text
\* stores text; --key followed by a word stores the word; --key followed by
\* nothing or by an option stores true; any other word is positional
ParseArgv(tokens, parsed) ==
    IF tokens = <<>> THEN parsed
    ELSE LET arg == Head(tokens)
         IN  IF arg.kind = "flagEq"
             THEN ParseArgv(Tail(tokens),
                            [parsed EXCEPT !.mode = setKey(@, ArgValue(arg.text))])
             ELSE IF arg.kind = "flag"
             THEN IF Len(tokens) > 1 /\ tokens[2].kind = "word"
                  THEN ParseArgv(Tail(Tail(tokens)),
                                 [parsed EXCEPT !.mode = setKey(@, ArgValue(tokens[2].text))])
                  ELSE ParseArgv(Tail(tokens),
                                 [parsed EXCEPT !.mode = setKey(@, Bool(TRUE))])
             ELSE ParseArgv(Tail(tokens),
                            [parsed EXCEPT !.positional = Append(@, ArgValue(arg.text))])

\* minimist(process.argv.slice(2)): args.mode and args._
minimist(tokens) == ParseArgv(tokens, NoArgs)

\* args.mode || "schema"
ModeOf(parsed) == IF Truthy(parsed.mode) THEN parsed.mode ELSE Str(SchemaText)

\* the argument checks of main: "usage" for a number of positional
\* arguments other than 2 or 3, "missing" for a falsy one, "crash" when
\* startsWith is called on a host or path that minimist stored as a number,
\* "ok" otherwise
CheckPositional(positional) ==
    IF Len(positional) \notin {2, 3} THEN "usage"
    ELSE IF \E i \in 1..Len(positional) : ~Truthy(positional[i]) THEN "missing"
    ELSE IF Len(positional) = 3 /\ \E i \in 1..3 : positional[i].t = "num" THEN "crash"
    ELSE "ok"

\* what main does once the arguments are checked
SelectMode(parsed) ==
    IF CheckPositional(parsed.positional) # "ok" THEN "exit"
    ELSE IF ModeOf(parsed) = Str(SchemaText) THEN "schema"
    ELSE IF ModeOf(parsed) = Str(HtmlText) THEN "html"
    ELSE "exit"

\* the command lines main is started with
Argvs ==
    {<<Word(XText), Word(YText)>>,
     <<Word(XText), Word(YText), Word(XText)>>,
     <<Flag("mode"), Word(SchemaText), Word(XText), Word(YText)>>,
     <<FlagEq("mode", HtmlText), Word(XText), Word(YText)>>,
     <<Word(XText), Word(YText), Flag("mode"), Word(HtmlText)>>,
     <<Flag("mode"), Word(XmlText), Word(XText), Word(YText)>>,
     <<Flag("mode"), Word(ZeroText), Word(XText), Word(YText)>>,
     <<FlagEq("mode", <<>>), Word(XText), Word(YText)>>,
     <<Word(XText), Word(YText), Flag("mode")>>,
     <<Flag("mode"), Word(HtmlText), Flag("mode"), Word(HtmlText), Word(XText), Word(YText)>>,
     <<Flag("mode"), Word(HtmlText)>>,
     <<Flag("mode"), Word(XmlText), Word(XText)>>,
     <<Word(XText), Word(ZeroText)>>,
     <<Word(XText), Word(YText), Word(OneText)>>,
     <<Word(XText), Word(YText), Word(XText), Word(YText)>>}

\* the pages fetched in schema mode, the documents fetched in HTML mode
MainPages ==
    {<<JsonBlock(ProductOld)>>, <<JsonBlock(ProductNew)>>, <<MalformedBlock>>}

ClassXDoc ==
    Document(<<Element("div", <<Attr(ClassAttr, XText), Attr(TitleAttr, YText)>>,
                       <<TextNode(XText)>>)>>)

ClassYDoc ==
    Document(<<Element("div", <<Attr(ClassAttr, YText), Attr(TitleAttr, YText)>>,
                       <<TextNode(XText)>>)>>)

OtherDoc == Document(<<Element("div", <<Attr(TitleAttr, XText)>>, <<>>), TextNode(YText)>>)

\* <div class="x" title="-->">x</div>
ArrowTitleDoc ==
    Document(<<Element("div", <<Attr(ClassAttr, XText), Attr(TitleAttr, CommentClose)>>,
                       <<TextNode(XText)>>)>>)

\* <div class="<!--" title="-->">x</div>
OpenClassDoc ==
    Document(<<Element("div", <<Attr(ClassAttr, CommentOpen), Attr(TitleAttr, CommentClose)>>,
                       <<TextNode(XText)>>)>>)

MainDocs == {ClassXDoc, ClassYDoc, OtherDoc, ArrowTitleDoc, OpenClassDoc}

InitMain ==
    /\ pc = "main"
    /\ argv \in Argvs
    /\ args = NoArgs
    /\ mode = Undefined
    /\ dom = <<>>
    /\ clean1 = <<>>
    /\ clean2 = <<>>
    /\ diffs = <<>>
    /\ fetch1 = "idle"
    /\ fetch2 = "idle"
    /\ html1 = <<>>
    /\ html2 = <<>>
    /\ schemas1 = NoSchemas
    /\ schemas2 = NoSchemas
    /\ comparison = NoComparison
    /\ display = "none"
    /\ warnings = <<>>
    /\ exitCode = 0
    /\ FunIdle

\* main up to its first await: parse the options, check the arguments, and
\* either exit with status 1 or call runSchemaDiff or runHtmlDiff, which
\* starts both fetches with Promise.all
Main ==
    /\ pc = "main"
    /\ args' = minimist(argv)
    /\ mode' = ModeOf(minimist(argv))
    /\ IF SelectMode(minimist(argv)) = "exit"
       THEN /\ pc' = "exited"
            /\ exitCode' = 1
            /\ UNCHANGED <<fetch1, fetch2>>
       ELSE /\ pc' = IF SelectMode(minimist(argv)) = "schema"
                     THEN "fetching" ELSE "htmlFetching"
            /\ fetch1' = "pending"
            /\ fetch2' = "pending"
            /\ UNCHANGED exitCode
    /\ UNCHANGED <<html1, html2, schemas1, schemas2, comparison, display, warnings,
                   funVars, argv, dom, clean1, clean2, diffs>>

\* the pages fetchUrl can resolve with in the running mode
Fetchable == IF pc = "fetching" THEN MainPages ELSE MainDocs

\* fetchUrl(url1) resolves with the page's text
Fetch1Resolves ==
    /\ pc \in {"fetching", "htmlFetching"}
    /\ fetch1 = "pending"
    /\ \E page \in Fetchable : html1' = page
    /\ fetch1' = "ok"
    /\ UNCHANGED <<pc, fetch2, html2, schemas1, schemas2, comparison, display,
                   warnings, exitCode, funVars, htmlVars>>

Fetch2Resolves ==
    /\ pc \in {"fetching", "htmlFetching"}
    /\ fetch2 = "pending"
    /\ \E page \in Fetchable : html2' = page
    /\ fetch2' = "ok"
    /\ UNCHANGED <<pc, fetch1, html1, schemas1, schemas2, comparison, display,
                   warnings, exitCode, funVars, htmlVars>>

\* fetchUrl(url1) throws: a network error or a response that is not ok
Fetch1Rejects ==
    /\ pc \in {"fetching", "htmlFetching"}
    /\ fetch1 = "pending"
    /\ fetch1' = "failed"
    /\ UNCHANGED <<pc, fetch2, html1, html2, schemas1, schemas2, comparison,
                   display, warnings, exitCode, funVars, htmlVars>>

Fetch2Rejects ==
    /\ pc \in {"fetching", "htmlFetching"}
    /\ fetch2 = "pending"
    /\ fetch2' = "failed"
    /\ UNCHANGED <<pc, fetch1, html1, html2, schemas1, schemas2, comparison,
                   display, warnings, exitCode, funVars, htmlVars>>

\* runHtmlDiff: Promise.all rejects as soon as one fetch has failed: catch,
\* process.exit(1)
AbortHtml ==
    /\ pc = "htmlFetching"
    /\ fetch1 = "failed" \/ fetch2 = "failed"
    /\ pc' = "exited"
    /\ exitCode' = 1
    /\ UNCHANGED <<fetch1, fetch2, html1, html2, schemas1, schemas2, comparison,
                   display, warnings, funVars, htmlVars>>

\* runHtmlDiff: both pages fetched; transformHtml for both, up to the
\* results of prettier.format
SimplifyBoth ==
    /\ pc = "htmlFetching"
    /\ fetch1 = "ok"
    /\ fetch2 = "ok"
    /\ clean1' = transformHtml(html1)
    /\ clean2' = transformHtml(html2)
    /\ pc' = "simplified"
    /\ UNCHANGED <<fetch1, fetch2, html1, html2, schemas1, schemas2, comparison,
                   display, warnings, exitCode, funVars, argv, args, mode, dom, diffs>>

\* runHtmlDiff: pretty for both, diffLines, displayHtmlDiff
DiffAndDisplay ==
    /\ pc = "simplified"
    /\ diffs' = diffLines(pretty(clean1), pretty(clean2))
    /\ display' = displayHtmlDiff(diffLines(pretty(clean1), pretty(clean2)))
    /\ pc' = "done"
    /\ UNCHANGED <<fetch1, fetch2, html1, html2, schemas1, schemas2, comparison,
                   warnings, exitCode, funVars, argv, args, mode, dom, clean1, clean2>>

NextMain ==
    \/ Main
    \/ Fetch1Resolves
    \/ Fetch2Resolves
    \/ Fetch1Rejects
    \/ Fetch2Rejects
    \/ Abort
    \/ AbortHtml
    \/ Extract
    \/ Compare
    \/ Display
    \/ SimplifyBoth
    \/ DiffAndDisplay

SpecMain == InitMain /\ [][NextMain]_vars

\* the rejection of Promise.all is handled once it has happened
SpecMainFair == SpecMain /\ WF_vars(Abort) /\ WF_vars(AbortHtml)

-----------------------------------------------------------------------------
(* Properties of normalizeSchema and diff (SpecNorm) *)

\* the one-to-one maps of 1..n onto itself
Permutations(n) == {f \in [1..n -> 1..n] : \A i, j \in 1..n : f[i] = f[j] => i = j}

RECURSIVE EqualIgnoringOrder(_, _)
\* a and b are structurally equal up to the order of object keys and of
\* array elements, at every depth
EqualIgnoringOrder(a, b) ==
    /\ a.t = b.t
    /\ IF a.t = "arr"
       THEN /\ Len(a.items) = Len(b.items)
            /\ \E f \in Permutations(Len(a.items)) :
                   \A i \in 1..Len(a.items) : EqualIgnoringOrder(a.items[i], b.items[f[i]])
       ELSE IF a.t = "obj"
       THEN /\ Range(a.keys) = Range(b.keys)
            /\ \A k \in Range(a.keys) : EqualIgnoringOrder(GetProp(a, k), GetProp(b, k))
       ELSE a = b

\* C1: diff(normalizeSchema(a), normalizeSchema(b)) is empty if and only if
\* a and b are structurally equal ignoring object-key and array-element order
C1_DiffEmptyIffEqualIgnoringOrder ==
    fpc = "diffed" => (~delta.defined <=> EqualIgnoringOrder(in1, in2))

\* C2: values that differ only by a permutation of object keys or of array
\* elements, at any depth, normalize to exactly the same result
C2_NormalizeOrderInsensitive ==
    (fpc = "normalized" /\ EqualIgnoringOrder(in1, in2)) => out1 = out2

\* C3: normalizeSchema is idempotent: normalizing a normalized value gives
\* the same value, key order and element order included
C3_NormalizeIdempotent ==
    fpc = "renormalized" => out3 = out1

\* C3 witness: an array of objects, which normalization both reordered and
\* rewrote, has been normalized a second time
C3_Witness ==
    /\ fpc = "renormalized"
    /\ in1 = Arr(<<Obj(<<KeyB, KeyA>>, <<Num(1), Num(1)>>), Obj(<<KeyA>>, <<Num(2)>>)>>)
    /\ out1 = Arr(<<Obj(<<KeyA, KeyB>>, <<Num(1), Num(1)>>), Obj(<<KeyA>>, <<Num(2)>>)>>)
    /\ out1 # in1

-----------------------------------------------------------------------------
(* Properties of getSchemaType (SpecType) *)

\* ys is xs in some other order
IsPermutationOf(xs, ys) ==
    /\ Len(xs) = Len(ys)
    /\ \E f \in Permutations(Len(xs)) : \A i \in 1..Len(xs) : ys[i] = xs[f[i]]

\* the strings ys ascend in code-unit order
Ascending(ys) ==
    \A i, j \in 1..Len(ys) : i < j => CodeUnitCmp(ys[i].v, ys[j].v) <= 0

\* C9: the type key is the @type string itself; for an @type array of
\* strings it is the elements in ascending order joined with ", ", the same
\* for every order of the array; it is "unknown" when @type is absent or
\* the instance is null
C9_TypeKey ==
    fpc = "typed" =>
        LET ty1 == GetProp(in1, AtType)
            ty2 == GetProp(in2, AtType)
        IN  /\ ty1.t = "str" => out1 = ty1
            /\ ty1.t = "arr" =>
                   \E f \in Permutations(Len(ty1.items)) :
                       LET ys == [i \in 1..Len(ty1.items) |-> ty1.items[f[i]]]
                       IN  Ascending(ys) /\ out1.v = Join(ys, CommaSpace, 1)
            /\ (ty1.t = "arr" /\ ty2.t = "arr" /\ IsPermutationOf(ty1.items, ty2.items))
                   => out1 = out2
            /\ (in1 = Null \/ (in1.t = "obj" /\ AtType \notin Range(in1.keys)))
                   => out1 = Str(UnknownText)

\* C9 witness: @type ["Product", "Book"] and ["Book", "Product"] both gave
\* the key "Book, Product"
C9_Witness ==
    /\ fpc = "typed"
    /\ in1 = Obj(<<AtType>>, <<Arr(<<Str(ProductText), Str(BookText)>>)>>)
    /\ in2 = Obj(<<AtType>>, <<Arr(<<Str(BookText), Str(ProductText)>>)>>)
    /\ out1 = Str(BookText \o CommaSpace \o ProductText)
    /\ out2 = out1

-----------------------------------------------------------------------------
(* Properties of the comparison report (Spec) *)

\* compareSchemas has produced the report
Compared == pc \in {"compared", "done"}

\* the type keys of the report's comparisons, in order
ComparedTypes ==
    [i \in 1..Len(comparison.typeComparisons) |-> comparison.typeComparisons[i].type]

\* C4: when the second document holds the same instances as the first, in
\* reversed or any other order, every type comparison has an empty diff
\* list and allTypesIdentical is true
C4_ReorderedInstancesIdentical ==
    (Compared /\ IsPermutationOf(ParsedSchemas(html1), ParsedSchemas(html2))) =>
        /\ comparison.allTypesIdentical
        /\ \A i \in 1..Len(comparison.typeComparisons) :
               comparison.typeComparisons[i].differences = <<>>

\* one block {"@type":"Product","name":"Old"} against one block
\* {"@type":"Product","name":"New"}
ScenarioA ==
    /\ Compared
    /\ html1 = <<JsonBlock(ProductOld)>>
    /\ html2 = <<JsonBlock(ProductNew)>>

\* the text "0.name"
ZeroDotName == <<48>> \o Dot \o NameText

\* C5 as stated: in scenario A the report has one type comparison, for
\* "Product", with one Edited entry whose path is name, and
\* allTypesIdentical is false
C5_ScenarioA_PathName ==
    ScenarioA =>
        /\ Len(comparison.typeComparisons) = 1
        /\ comparison.typeComparisons[1].type = ProductText
        /\ Len(comparison.typeComparisons[1].differences) = 1
        /\ comparison.typeComparisons[1].differences[1].kind = "E"
        /\ comparison.typeComparisons[1].differences[1].path = <<PathKey(NameText)>>
        /\ PathText(comparison.typeComparisons[1].differences[1]) = NameText
        /\ ~comparison.allTypesIdentical

\* C5 amended: in scenario A the report has one type comparison, for
\* "Product", with one Edited entry from "Old" to "New" whose path is the
\* index 0 of the instance in the compared list followed by name, shown as
\* 0.name, and allTypesIdentical is false
C5_ScenarioA_PathZeroName ==
    ScenarioA =>
        /\ Len(comparison.typeComparisons) = 1
        /\ comparison.typeComparisons[1].type = ProductText
        /\ Len(comparison.typeComparisons[1].differences) = 1
        /\ comparison.typeComparisons[1].differences[1].kind = "E"
        /\ comparison.typeComparisons[1].differences[1].path = <<PathIndex(0), PathKey(NameText)>>
        /\ comparison.typeComparisons[1].differences[1].lhs = Str(OldText)
        /\ comparison.typeComparisons[1].differences[1].rhs = Str(NewText)
        /\ PathText(comparison.typeComparisons[1].differences[1]) = ZeroDotName
        /\ ~comparison.allTypesIdentical

\* C5 witness: scenario A has been compared and its comparison is not identical
C5_Witness ==
    /\ ScenarioA
    /\ comparison.typeComparisons # <<>>
    /\ ~comparison.typeComparisons[1].identical

\* every instance of bucket is reported by differences as one array change
\* of the given item kind, at an index of its own, carrying its normal form
\* on the given side
EveryInstanceReported(differences, bucket, itemKind) ==
    /\ differences # <<>>
    /\ Len(differences) = Len(bucket)
    /\ \A i \in 1..Len(differences) :
           /\ differences[i].kind = "A"
           /\ differences[i].path = <<>>
           /\ Len(differences[i].item) = 1
           /\ differences[i].item[1].kind = itemKind
    /\ {differences[i].index : i \in 1..Len(differences)} = 0..(Len(bucket) - 1)
    /\ {IF itemKind = "N" THEN differences[i].item[1].rhs ELSE differences[i].item[1].lhs :
            i \in 1..Len(differences)}
         = {normalizeSchema(bucket[i]) : i \in 1..Len(bucket)}

\* C6: for a type key present on one side only, the count of the missing
\* side is 0, the other count is the number of instances of the type, and
\* the diff list is non-empty and reports every instance of the type as
\* added (type only in document 2) or removed (type only in document 1)
C6_OneSidedType ==
    Compared =>
        \A i \in 1..Len(comparison.typeComparisons) :
            LET tc == comparison.typeComparisons[i]
                bucket1 == MapGet(schemas1.schemasByType, tc.type)
                bucket2 == MapGet(schemas2.schemasByType, tc.type)
            IN  /\ (MapHas(schemas1.schemasByType, tc.type) /\ ~MapHas(schemas2.schemasByType, tc.type))
                       => /\ tc.count2 = 0
                          /\ tc.count1 = Len(bucket1)
                          /\ EveryInstanceReported(tc.differences, bucket1, "D")
                /\ (MapHas(schemas2.schemasByType, tc.type) /\ ~MapHas(schemas1.schemasByType, tc.type))
                       => /\ tc.count1 = 0
                          /\ tc.count2 = Len(bucket2)
                          /\ EveryInstanceReported(tc.differences, bucket2, "N")

\* C6 witness: document 1 has two Product instances and document 2 has
\* none of that type, and the comparison for Product has been made
C6_Witness ==
    /\ Compared
    /\ Len(MapGet(schemas1.schemasByType, ProductText)) = 2
    /\ ~MapHas(schemas2.schemasByType, ProductText)
    /\ \E i \in 1..Len(comparison.typeComparisons) :
           /\ comparison.typeComparisons[i].type = ProductText
           /\ comparison.typeComparisons[i].count1 = 2

\* C7: each type comparison is identical iff its diff list is empty, and
\* allTypesIdentical holds iff every type comparison's diff list is empty
C7_IdenticalIffNoDifferences ==
    Compared =>
        /\ \A i \in 1..Len(comparison.typeComparisons) :
               comparison.typeComparisons[i].identical
                   <=> comparison.typeComparisons[i].differences = <<>>
        /\ comparison.allTypesIdentical
               <=> \A i \in 1..Len(comparison.typeComparisons) :
                       comparison.typeComparisons[i].differences = <<>>

\* C7 witness: a type with the same count on both sides and differing
\* content has been compared, and the report is not all-identical
C7_Witness ==
    /\ Compared
    /\ ~comparison.allTypesIdentical
    /\ \A i \in 1..Len(comparison.typeComparisons) :
           comparison.typeComparisons[i].count1 = comparison.typeComparisons[i].count2

\* C8: the report has exactly one type comparison for each type key of
\* either side: none missing, none twice, none for a key of neither side
C8_OneComparisonPerUnionKey ==
    Compared =>
        /\ Range(ComparedTypes)
             = Range(MapKeys(schemas1.schemasByType)) \cup Range(MapKeys(schemas2.schemasByType))
        /\ \A i, j \in 1..Len(ComparedTypes) : ComparedTypes[i] = ComparedTypes[j] => i = j

\* C8 witness: one type key is on both sides, another on one side only,
\* and the report holds two comparisons
C8_Witness ==
    /\ Compared
    /\ Len(comparison.typeComparisons) = 2
    /\ \E k \in Range(MapKeys(schemas1.schemasByType)) : MapHas(schemas2.schemasByType, k)
    /\ \E k \in Range(MapKeys(schemas1.schemasByType)) : ~MapHas(schemas2.schemasByType, k)

\* C10: deriving the type keys leaves the instances unchanged: the stored
\* instances, a multi-valued @type array's element order included, are as
\* they were parsed
C10_InstancesAsParsed ==
    pc \in {"extracted", "compared", "done"} =>
        /\ schemas1.schemas = ParsedSchemas(html1)
        /\ schemas2.schemas = ParsedSchemas(html2)

-----------------------------------------------------------------------------
(* Properties of extractJsonLdSchemas and groupSchemasByType (SpecExtract) *)

Extracted == fpc = "extracted"

\* the instances of xs whose type key is type, in the order of xs
InstancesOfType(xs, type) == SelectSeq(xs, LAMBDA x : getSchemaType(x) = type)

\* C11: groupSchemasByType partitions the instance list: the bucket keys are
\* distinct, no bucket is empty, every instance's type key is the key of a
\* bucket, and each bucket is exactly the instances of its type key in the
\* order the instance list has them
C11_GroupingPartitions ==
    Extracted =>
        LET xs == schemas1.schemas
            grouped == schemas1.schemasByType
        IN  /\ \A i, j \in 1..Len(grouped) : grouped[i].type = grouped[j].type => i = j
            /\ \A i \in 1..Len(xs) : MapHas(grouped, getSchemaType(xs[i]))
            /\ \A i \in 1..Len(grouped) :
                   /\ grouped[i].schemas # <<>>
                   /\ grouped[i].schemas = InstancesOfType(xs, grouped[i].type)

\* a bucket of two different instances with an instance of another type
\* between them in the list
C11_Witness ==
    /\ Extracted
    /\ html1 = <<JsonBlock(Arr(<<ProductNew, MultiNFC, ProductOld>>))>>
    /\ MapGet(schemas1.schemasByType, ProductText) = <<ProductNew, ProductOld>>
    /\ Len(schemas1.schemasByType) = 2

\* a and b are the same instance, the order of a top-level @type array
\* (which the grouping sorts in place) left aside
SameInstance(a, b) ==
    \/ a = b
    \/ /\ IsObject(a) /\ IsObject(b)
       /\ a.keys = b.keys
       /\ \A i \in 1..Len(a.keys) :
              \/ a.items[i] = b.items[i]
              \/ /\ a.keys[i] = AtType
                 /\ IsArray(a.items[i]) /\ IsArray(b.items[i])
                 /\ IsPermutationOf(a.items[i].items, b.items[i].items)

\* the number of instances a block contributes when one level is flattened
BlockCount(block) ==
    IF block.kind # "json" THEN 0
    ELSE IF IsArray(block.parsed) THEN Len(block.parsed.items)
    ELSE 1

RECURSIVE BlockOffset(_, _)
\* the number of instances the blocks before block k contribute
BlockOffset(html, k) ==
    IF k = 1 THEN 0 ELSE BlockOffset(html, k - 1) + BlockCount(html[k - 1])

\* C12: extraction flattens exactly one level: a block holding an array
\* contributes each of its top-level elements, in order, a block holding
\* anything else contributes that one value, and an array found inside a
\* top-level array stays one instance
C12_FlattensOneLevel ==
    Extracted =>
        LET xs == schemas1.schemas
        IN  /\ Len(xs) = BlockOffset(html1, Len(html1) + 1)
            /\ \A k \in 1..Len(html1) :
                   html1[k].kind = "json" =>
                       IF IsArray(html1[k].parsed)
                       THEN \A i \in 1..Len(html1[k].parsed.items) :
                                SameInstance(xs[BlockOffset(html1, k) + i],
                                             html1[k].parsed.items[i])
                       ELSE SameInstance(xs[BlockOffset(html1, k) + 1], html1[k].parsed)

\* an array block whose first element is itself an array, after an object
C12_Witness ==
    /\ Extracted
    /\ html1 = <<JsonBlock(ProductOld),
                 JsonBlock(Arr(<<Arr(<<ProductOld, ProductNew>>), ProductNew>>))>>
    /\ schemas1.schemas = <<ProductOld, Arr(<<ProductOld, ProductNew>>), ProductNew>>

IsMalformed(block) == block.kind = "malformed"

\* C13: a block that is not JSON is skipped with one warning naming the
\* source URL and extraction goes on: the instance list is the one the page
\* gives with its malformed blocks taken out, wherever they stand
C13_MalformedSkipped ==
    Extracted =>
        LET valid == SelectSeq(html1, LAMBDA b : ~IsMalformed(b))
        IN  /\ schemas1.schemas = extractJsonLdSchemas(valid, Url1).schemas
            /\ schemas1.schemasByType = extractJsonLdSchemas(valid, Url1).schemasByType
            /\ Len(warnings) = Len(html1) - Len(valid)
            /\ \A i \in 1..Len(warnings) : warnings[i] = Url1
            /\ exitCode = 0

\* a malformed block between two valid ones
C13_Witness ==
    /\ Extracted
    /\ html1 = <<JsonBlock(ProductOld), MalformedBlock,
                 JsonBlock(Arr(<<ProductNew, ProductOld>>))>>
    /\ schemas1.schemas = <<ProductOld, ProductNew, ProductOld>>
    /\ warnings = <<Url1>>

-----------------------------------------------------------------------------
(* Properties of the per-type array comparison (Spec) *)

\* the list compareSchemasOfType hands to diff for a bucket
ComparedList(byType, type) == SortSerialized(NormalizeItems(MapGet(byType, type)))

\* ys is xs with one more element, at position i, equal to no element of xs
InsertedAt(xs, ys, i) ==
    /\ Len(ys) = Len(xs) + 1
    /\ i \in 1..Len(ys)
    /\ xs = SubSeq(ys, 1, i - 1) \o SubSeq(ys, i + 1, Len(ys))
    /\ ys[i] \notin Range(xs)

\* differences has an array change of the item kind at the zero-based index
\* carrying x
ReportsAt(differences, index, itemKind, x) ==
    \E n \in 1..Len(differences) :
        /\ differences[n].kind = "A"
        /\ differences[n].path = <<>>
        /\ differences[n].index = index
        /\ differences[n].item = <<IF itemKind = "N"
                                   THEN Change("N", <<>>, Undefined, x)
                                   ELSE Change("D", <<>>, x, Undefined)>>

\* C14 as stated: when the compared list of document 2 is that of
\* document 1 with one instance inserted, the differences hold an Added
\* array change at the index the instance has in document 2's list, and
\* symmetrically a Removed one at its index in document 1's list
C14_InsertionReportedAtItsIndex ==
    Compared =>
        \A n \in 1..Len(comparison.typeComparisons) :
            LET tc == comparison.typeComparisons[n]
                a == ComparedList(schemas1.schemasByType, tc.type)
                b == ComparedList(schemas2.schemasByType, tc.type)
            IN  /\ \A i \in 1..Len(b) :
                       InsertedAt(a, b, i) => ReportsAt(tc.differences, i - 1, "N", b[i])
                /\ \A i \in 1..Len(a) :
                       InsertedAt(b, a, i) => ReportsAt(tc.differences, i - 1, "D", a[i])

-----------------------------------------------------------------------------
(* The order of normalized array elements (SpecNorm) *)

\* C15 as stated: the elements of a normalized array stand in ascending
\* code-unit order of their JSON serializations, and the comparator used is
\* a total order: two elements compare equal only when their serializations
\* are the same string
C15_SerializedCodeUnitOrder ==
    (fpc = "normalized" /\ IsArray(in1)) =>
        /\ \A i, j \in 1..Len(out1.items) :
               i < j => CodeUnitCmp(JSON_stringify(out1.items[i]),
                                    JSON_stringify(out1.items[j])) <= 0
        /\ \A i, j \in 1..Len(out1.items) :
               CompareSerialized(out1.items[i], out1.items[j]) = 0
                   => JSON_stringify(out1.items[i]) = JSON_stringify(out1.items[j])

-----------------------------------------------------------------------------
(* Properties of main, the fetch barrier and mode selection (SpecMain) *)

BothFetched == fetch1 = "ok" /\ fetch2 = "ok"

FetchFailed == fetch1 = "failed" \/ fetch2 = "failed"

\* nothing has been extracted, simplified, compared or displayed
NothingProduced ==
    /\ schemas1 = NoSchemas
    /\ schemas2 = NoSchemas
    /\ comparison = NoComparison
    /\ clean1 = <<>>
    /\ clean2 = <<>>
    /\ diffs = <<>>
    /\ display = "none"
    /\ warnings = <<>>

\* C16: in both modes the two fetches are started in the same step, either
\* may complete first, and nothing is extracted, simplified, compared or
\* displayed unless both fetches have resolved
C16_FetchBarrier ==
    /\ fetch1 = "idle" <=> fetch2 = "idle"
    /\ pc \in {"extracted", "compared", "simplified", "done"} => BothFetched
    /\ ~NothingProduced => BothFetched

\* HTML mode, the second fetch resolved while the first is in flight
C16_Witness ==
    /\ pc = "htmlFetching"
    /\ fetch1 = "pending"
    /\ fetch2 = "ok"
    /\ html2 = ClassYDoc
    /\ NothingProduced

\* C17: once a fetch has failed it stays failed (no retry), nothing is
\* extracted, compared, simplified or displayed, not even from the page
\* that was fetched, and the process exits, with status 1
C17_FetchFailureAborts ==
    /\ [](FetchFailed =>
             /\ NothingProduced
             /\ pc \in {"fetching", "htmlFetching", "exited"}
             /\ pc = "exited" => exitCode = 1)
    /\ [][/\ fetch1 = "failed" => fetch1' = "failed"
          /\ fetch2 = "failed" => fetch2' = "failed"]_vars
    /\ FetchFailed ~> (pc = "exited" /\ exitCode = 1)

\* schema mode: the first page was fetched, the second fetch failed, the
\* process has exited
C17_Witness ==
    /\ pc = "exited"
    /\ mode = Str(SchemaText)
    /\ fetch1 = "ok"
    /\ html1 = <<JsonBlock(ProductOld)>>
    /\ fetch2 = "failed"
    /\ exitCode = 1
    /\ NothingProduced

\* the schema pipeline, the HTML pipeline has been given the pages
SchemaPipelineRan == pc \in {"fetching", "extracted", "compared"} \/ schemas1 # NoSchemas

HtmlPipelineRan == pc \in {"htmlFetching", "simplified"} \/ clean1 # <<>>

\* C18 as stated: the schema pipeline runs only when --mode is absent or
\* "schema", the HTML pipeline only when it is "html", never both, and for
\* any other value of --mode no URL is fetched and the process exits with
\* an error
C18_ModeSelection ==
    pc # "main" =>
        /\ ~(SchemaPipelineRan /\ HtmlPipelineRan)
        /\ SchemaPipelineRan => args.mode \in {Undefined, Str(SchemaText)}
        /\ HtmlPipelineRan => args.mode = Str(HtmlText)
        /\ args.mode \notin {Undefined, Str(SchemaText), Str(HtmlText)} =>
               /\ fetch1 = "idle"
               /\ fetch2 = "idle"
               /\ pc = "exited"
               /\ exitCode = 1

-----------------------------------------------------------------------------
(* Properties of transformHtml (SpecHtml) *)

Simplified == fpc \in {"simplified", "formatted"}

RECURSIVE ElementSeq(_, _)
\* the elements of the tree in document order, the elements inside an
\* element named in skip left out
ElementSeq(nodes, skip) ==
    IF nodes = <<>> THEN <<>>
    ELSE (IF IsElement(Head(nodes))
          THEN <<Head(nodes)>>
                   \o (IF Head(nodes).name \in skip THEN <<>>
                       ELSE ElementSeq(Head(nodes).children, skip))
          ELSE <<>>)
             \o ElementSeq(Tail(nodes), skip)

\* the attribute names transformHtml removes
StrippedName(name) ==
    \/ name \in {ClassAttr, StyleAttr, SrcsetAttr, ImagesrcsetAttr, OnclickAttr}
    \/ startsWith(name, DataPrefix)

\* C19 as stated: no element of the resulting tree has a class, style,
\* srcset, imagesrcset or onclick attribute or one whose name starts with
\* data-, and every element kept outside svg has the attributes some element
\* of the same name has in the page, the stripped ones left out, with the
\* same values in the same order
C19_AttributesStripped ==
    Simplified =>
        LET result == ElementSeq(dom, {})
            given == ElementSeq(html1, {})
        IN  /\ \A i \in 1..Len(result) : \A k \in 1..Len(result[i].attribs) :
                   ~StrippedName(result[i].attribs[k].name)
            /\ \A i \in 1..Len(result) :
                   result[i].name # "svg" =>
                       \E j \in 1..Len(given) :
                           /\ given[j].name = result[i].name
                           /\ result[i].attribs =
                                  SelectSeq(given[j].attribs,
                                            LAMBDA a : ~StrippedName(a.name))

\* the elements of the tree named name whose attribute attrName is value
ElementsWith(nodes, skip, name, attrName, value) ==
    SelectSeq(ElementSeq(nodes, skip),
              LAMBDA e : e.name = name /\ attr(e, attrName) = value)

SvgElements(nodes) ==
    SelectSeq(ElementSeq(nodes, {}), LAMBDA e : e.name = "svg")

\* C21 as stated: after transformHtml every svg element of the result has no
\* attributes and no children of any kind, neither elements nor text
C21_SvgEmptied ==
    Simplified =>
        \A i \in 1..Len(SvgElements(dom)) :
            /\ SvgElements(dom)[i].attribs = <<>>
            /\ SvgElements(dom)[i].children = <<>>

\* what the removal of the children of svg does bring about: no attributes
\* and no element children
C21_SvgElementChildrenRemoved ==
    Simplified =>
        \A i \in 1..Len(SvgElements(dom)) :
            /\ SvgElements(dom)[i].attribs = <<>>
            /\ \A k \in 1..Len(SvgElements(dom)[i].children) :
                   ~IsElement(SvgElements(dom)[i].children[k])

\* ---------------------------------------------------------------------------
\* C22: a change of one class value
\* ---------------------------------------------------------------------------

RECURSIVE SameExceptClass(_, _)
\* the two trees are the same but for the values of class attributes
SameExceptClass(a, b) ==
    /\ Len(a) = Len(b)
    /\ \A i \in 1..Len(a) :
           /\ a[i].type = b[i].type
           /\ a[i].name = b[i].name
           /\ a[i].data = b[i].data
           /\ Len(a[i].attribs) = Len(b[i].attribs)
           /\ \A k \in 1..Len(a[i].attribs) :
                  /\ a[i].attribs[k].name = b[i].attribs[k].name
                  /\ a[i].attribs[k].name # ClassAttr =>
                         a[i].attribs[k].value = b[i].attribs[k].value
           /\ SameExceptClass(a[i].children, b[i].children)

\* the two pages are the same but for the class value of exactly one element
OneClassDiffers ==
    /\ SameExceptClass(html1, html2)
    /\ Cardinality({i \in 1..Len(ElementSeq(html1, {})) :
                       ElementSeq(html1, {})[i].attribs
                           # ElementSeq(html2, {})[i].attribs}) = 1

\* runHtmlDiff has compared the two pages and reported
HtmlReported == pc = "done" /\ clean1 # <<>>

\* C22 as stated: when the two pages are the same but for the class value of
\* one element, their canonical forms are equal, the line diff is one
\* unchanged part and the content is reported identical
C22_ClassChangeIsIdentical ==
    (HtmlReported /\ OneClassDiffers) =>
        /\ clean1 = clean2
        /\ Len(diffs) = 1
        /\ ~diffs[1].added
        /\ ~diffs[1].removed
        /\ display = "identical"

\* the same for class values that hold no "<!--"
C22_PlainClassChangeIsIdentical ==
    (/\ HtmlReported
     /\ OneClassDiffers
     /\ \A i \in 1..Len(ElementSeq(html1, {})) :
            /\ FirstAt(attr(ElementSeq(html1, {})[i], ClassAttr), CommentOpen) = 0
            /\ FirstAt(attr(ElementSeq(html2, {})[i], ClassAttr), CommentOpen) = 0) =>
        /\ clean1 = clean2
        /\ Len(diffs) = 1
        /\ ~diffs[1].added
        /\ ~diffs[1].removed
        /\ display = "identical"

\* two pages with different plain class values have been reported identical
C22_PlainWitness ==
    /\ HtmlReported
    /\ OneClassDiffers
    /\ html1 = ClassXDoc
    /\ html2 = ClassYDoc
    /\ display = "identical"

\* ---------------------------------------------------------------------------
\* C23: normalizeSchema and the content of a value
\* ---------------------------------------------------------------------------

\* how many elements of s equal e
Occurrences(s, e) == Cardinality({i \in 1..Len(s) : s[i] = e})

RECURSIVE PreservesContent(_, _)
\* y has the content of x: a scalar is the same; an object has the same keys,
\* each with the normalization of the value x has; an array has the same
\* length and the same elements, normalized, as many times each
PreservesContent(x, y) ==
    IF IsObject(x)
    THEN /\ IsObject(y)
         /\ Len(y.keys) = Cardinality(Range(y.keys))
         /\ Range(y.keys) = Range(x.keys)
         /\ \A k \in Range(x.keys) :
                /\ GetProp(y, k) = normalizeSchema(GetProp(x, k))
                /\ PreservesContent(GetProp(x, k), GetProp(y, k))
    ELSE IF IsArray(x)
    THEN /\ IsArray(y)
         /\ Len(y.items) = Len(x.items)
         /\ \A e \in Range(y.items) \cup Range(NormalizeItems(x.items)) :
                Occurrences(y.items, e) = Occurrences(NormalizeItems(x.items), e)
         /\ \A i \in 1..Len(x.items) :
                PreservesContent(x.items[i], normalizeSchema(x.items[i]))
    ELSE y = x

\* C23 as stated: the result of normalizeSchema has the kind of its input, a
\* scalar or null unchanged, every object with exactly the same keys and the
\* normalized values, every array with the same length and the same
\* normalized elements as many times each
C23_NormalizePreservesContent ==
    fpc = "normalized" =>
        /\ PreservesContent(in1, out1)
        /\ PreservesContent(in2, out2)

RECURSIVE HasProtoKey(_)
\* some object of the value has an own property named __proto__
HasProtoKey(x) ==
    IF IsObject(x)
    THEN ProtoKey \in Range(x.keys) \/ \E i \in 1..Len(x.items) : HasProtoKey(x.items[i])
    ELSE IF IsArray(x) THEN \E i \in 1..Len(x.items) : HasProtoKey(x.items[i])
    ELSE FALSE

\* the same for values none of whose objects has a key __proto__
C23_PreservesContentWithoutProto ==
    fpc = "normalized" =>
        /\ ~HasProtoKey(in1) => PreservesContent(in1, out1)
        /\ ~HasProtoKey(in2) => PreservesContent(in2, out2)

\* ---------------------------------------------------------------------------
\* C24: count changes in the report
\* ---------------------------------------------------------------------------

\* C24: a type comparison whose counts differ has differences and is not
\* identical; a report that is not all-identical has a type comparison that
\* is not identical; displayResults never returns from the branch "No content
\* differences found (only count changes)"
C24_CountChangeNeverIdentical ==
    Compared =>
        /\ \A i \in 1..Len(comparison.typeComparisons) :
               comparison.typeComparisons[i].count1 # comparison.typeComparisons[i].count2
                   => /\ comparison.typeComparisons[i].differences # <<>>
                      /\ ~comparison.typeComparisons[i].identical
        /\ ~comparison.allTypesIdentical
               => \E i \in 1..Len(comparison.typeComparisons) :
                      ~comparison.typeComparisons[i].identical
        /\ display # "only count changes"

\* C24 witness: a report whose only type has two instances on one side and
\* one on the other has been displayed, from the branch of the detailed
\* differences
C24_Witness ==
    /\ pc = "done"
    /\ Len(comparison.typeComparisons) = 1
    /\ comparison.typeComparisons[1].count1 = 2
    /\ comparison.typeComparisons[1].count2 = 1
    /\ ~comparison.allTypesIdentical
    /\ display = "detailed differences"

\* ---------------------------------------------------------------------------
\* C25: the counts of the report
\* ---------------------------------------------------------------------------

RECURSIVE SumOfCounts(_)
\* the sum of the numbers of a list
SumOfCounts(counts) ==
    IF counts = <<>> THEN 0 ELSE Head(counts).v[1] + SumOfCounts(Tail(counts))

\* typeCounts[type], or 0 when typeCounts has no entry for the type
CountOrZero(typeCounts, type) ==
    IF type \in Range(typeCounts.keys) THEN GetProp(typeCounts, type).v[1] ELSE 0

\* C25 as stated: on each side the total number of instances is the sum of
\* the per-type counts, and count1 and count2 of every type comparison are
\* the per-type counts of their side for its key, 0 where the side has no
\* entry for the key
C25_CountsConsistent ==
    Compared =>
        /\ comparison.totalSchemas1 = SumOfCounts(comparison.typeCounts1.items)
        /\ comparison.totalSchemas2 = SumOfCounts(comparison.typeCounts2.items)
        /\ \A i \in 1..Len(comparison.typeComparisons) :
               LET tc == comparison.typeComparisons[i]
               IN  /\ tc.count1 = CountOrZero(comparison.typeCounts1, tc.type)
                   /\ tc.count2 = CountOrZero(comparison.typeCounts2, tc.type)

\* the same for pages with no instance of type __proto__
C25_CountsConsistentWithoutProto ==
    (/\ Compared
     /\ ~MapHas(schemas1.schemasByType, ProtoKey)
     /\ ~MapHas(schemas2.schemasByType, ProtoKey)) =>
        /\ comparison.totalSchemas1 = SumOfCounts(comparison.typeCounts1.items)
        /\ comparison.totalSchemas2 = SumOfCounts(comparison.typeCounts2.items)
        /\ \A i \in 1..Len(comparison.typeComparisons) :
               LET tc == comparison.typeComparisons[i]
               IN  /\ tc.count1 = CountOrZero(comparison.typeCounts1, tc.type)
                   /\ tc.count2 = CountOrZero(comparison.typeCounts2, tc.type)

=============================================================================
